---- MODULE Spec2Model ----
(***************************************************************************)
(* The request pipeline of the lessllm gateway (src/lessllm/server.py):    *)
(* routing by model prefix, the four routing paths (OpenAI or Anthropic    *)
(* client x OpenAI or Anthropic provider), buffered and streaming          *)
(* handling, the dialect translators and the CallLog written per call.     *)
(*                                                                         *)
(* JSON objects are records.  A request body is a record with a field      *)
(* `keys` (the optional keys present in the dict) and one field per key;   *)
(* a key that is absent holds a fixed filler so that equal dicts are equal *)
(* records.  temperature and top_p are in tenths (10 stands for 1.0).      *)
(***************************************************************************)
EXTENDS Integers, Sequences, FiniteSets, TLC

\* ------------------------------------------------------------------ bounds
MaxMsgs == 2
MaxChunks == 3
MaxRequests == 3
MaxClock == 3
MaxEstMsgs == 3

\* --------------------------------------------------------------- constants
DefaultMaxTokens == 1000
DefaultTemperature == 10
CostNone == -1
TokensNone == -1
TicksPerMs == 2
MsNone == -1
DefaultClaudeModel == "claude-3-5-sonnet-20241022"

\* ---------------------------------------------------------- request dicts
MkDict(keys, model, messages, system, max_tokens, temperature, top_p, stream) ==
  [keys |-> keys, model |-> model, messages |-> messages, system |-> system,
   max_tokens |-> max_tokens, temperature |-> temperature, top_p |-> top_p,
   stream |-> stream]

EmptyDict == MkDict({}, "", <<>>, "", 0, 0, 0, FALSE)

Has(d, k) == k \in d.keys

\* dict.get(k, default) for the string, integer and boolean valued keys
GetModel(d, default) == IF Has(d, "model") THEN d.model ELSE default
GetMaxTokens(d, default) == IF Has(d, "max_tokens") THEN d.max_tokens ELSE default
GetTemperature(d, default) == IF Has(d, "temperature") THEN d.temperature ELSE default
GetStream(d, default) == IF Has(d, "stream") THEN d.stream ELSE default

\* request.copy(); request["stream"] = b
WithStream(d, b) == [d EXCEPT !.keys = @ \cup {"stream"}, !.stream = b]

Msg(role, content) == [role |-> role, content |-> content]

RECURSIVE NonSystem(_)
NonSystem(msgs) ==
  IF msgs = <<>> THEN <<>>
  ELSE IF Head(msgs).role = "system" THEN NonSystem(Tail(msgs))
       ELSE <<Head(msgs)>> \o NonSystem(Tail(msgs))

\* the value of system_message after the loop of _convert_to_claude_format:
\* each system message overwrites the previous one ("" stands for None)
RECURSIVE LastSystem(_)
LastSystem(msgs) ==
  IF msgs = <<>> THEN ""
  ELSE IF msgs[Len(msgs)].role = "system" THEN msgs[Len(msgs)].content
       ELSE LastSystem(SubSeq(msgs, 1, Len(msgs) - 1))

\* ClaudeProvider._convert_to_claude_format
convert_to_claude_format(request) ==
  LET sys == LastSystem(request.messages)
  IN  MkDict({"model", "max_tokens"}
               \cup (IF sys # "" THEN {"system"} ELSE {})
               \cup (request.keys \cap {"temperature", "top_p"}),
             request.model,
             NonSystem(request.messages),
             sys,
             GetMaxTokens(request, DefaultMaxTokens),
             IF Has(request, "temperature") THEN request.temperature ELSE 0,
             IF Has(request, "top_p") THEN request.top_p ELSE 0,
             FALSE)

\* server.convert_claude_to_openai (all message contents are strings here)
convert_claude_to_openai(claude_request) ==
  MkDict({"model", "max_tokens", "temperature", "stream"},
         GetModel(claude_request, DefaultClaudeModel),
         (IF Has(claude_request, "system")
            THEN <<Msg("system", claude_request.system)>> ELSE <<>>)
           \o claude_request.messages,
         "",
         GetMaxTokens(claude_request, DefaultMaxTokens),
         GetTemperature(claude_request, DefaultTemperature),
         0,
         GetStream(claude_request, FALSE))

\* ------------------------------------------------- responses and usage
\* A buffered upstream response, or the response synthesized for a log.
\* shape "openai": {"choices":[{"message":{"content": text}}], "usage": {prompt_tokens,..}}
\* shape "anthropic": {"type":"message","content":[{"type":"text","text": text}], "usage": {input_tokens,..}}
\* shape "empty": {}
\* usage: p and c are the prompt/input and completion/output counts, t is
\* "total_tokens" (TokensNone when the key is absent, as in every Anthropic usage)
Resp(shape, text, hasUsage, p, c, t) ==
  [shape |-> shape, text |-> text, hasUsage |-> hasUsage, p |-> p, c |-> c, t |-> t]

EmptyResp == Resp("empty", "", FALSE, 0, 0, TokensNone)

\* ClaudeProvider.normalize_response: Anthropic response -> OpenAI shape
normalize_response(response) ==
  IF response.shape # "anthropic" THEN response
  ELSE Resp("openai", response.text, response.hasUsage, response.p, response.c,
            IF response.hasUsage THEN response.p + response.c ELSE TokensNone)

\* server.convert_openai_to_claude_response, non-streaming branch
\* (usage is always written, with 0 for a missing count)
convert_openai_to_claude_response(openai_response) ==
  Resp("anthropic",
       IF openai_response.shape = "openai" THEN openai_response.text ELSE "",
       TRUE,
       IF openai_response.hasUsage THEN openai_response.p ELSE 0,
       IF openai_response.hasUsage THEN openai_response.c ELSE 0,
       TokensNone)

\* RawAPIData.extracted_usage: None, or a dict in OpenAI or Anthropic key names
Usage(present, shape, p, c, t) ==
  [present |-> present, shape |-> shape, p |-> p, c |-> c, t |-> t]

NoUsage == Usage(FALSE, "", 0, 0, TokensNone)

\* OpenAIProvider.parse_raw_response: the usage it extracts
parse_raw_response(response) ==
  IF response.hasUsage
    THEN Usage(TRUE, "openai", response.p, response.c, response.t) ELSE NoUsage

\* self.pricing of the two providers, in micro-USD per 1K tokens
Pricing(kind, model) ==
  IF kind = "openai" /\ model = "gpt-4"
    THEN [known |-> TRUE, input |-> 30000, output |-> 60000]
  ELSE IF kind = "claude" /\ model = "claude-3-opus-20240229"
    THEN [known |-> TRUE, input |-> 15000, output |-> 75000]
  ELSE [known |-> FALSE, input |-> 0, output |-> 0]

\* OpenAIProvider.estimate_cost / ClaudeProvider.estimate_cost, in nano-USD:
\* usage.get("prompt_tokens", 0) is 0 for a usage dict in Anthropic key names
estimate_cost(kind, usage, model) ==
  LET pr == Pricing(kind, model)
      prompt_tokens == IF usage.shape = "openai" THEN usage.p ELSE 0
      completion_tokens == IF usage.shape = "openai" THEN usage.c ELSE 0
  IN  IF ~pr.known THEN 0
      ELSE prompt_tokens * pr.input + completion_tokens * pr.output

\* ------------------------------------------------------ streaming chunks
\* One record shape for the chunks of both dialects:
\*   Anthropic: type "content_block_delta" with deltaType "text_delta" and text,
\*              or type "ping";
\*   OpenAI:    no "type" key, choices non-empty, delta with or without "content".
Chunk(type, deltaType, text, choices, hasContent, content) ==
  [type |-> type, deltaType |-> deltaType, text |-> text,
   choices |-> choices, hasContent |-> hasContent, content |-> content]

NoneChunk == Chunk("<None>", "", "", FALSE, FALSE, "")
ClaudeTextDelta(t) == Chunk("content_block_delta", "text_delta", t, FALSE, FALSE, "")
ClaudePing == Chunk("ping", "", "", FALSE, FALSE, "")
OpenAIDelta(t) == Chunk("", "", "", TRUE, TRUE, t)
OpenAIFinish == Chunk("", "", "", TRUE, FALSE, "")

\* {"type": "message_start", ...}, the first event of an Anthropic stream
ClaudeMessageStart == Chunk("message_start", "", "", FALSE, FALSE, "")
\* the first chunk of an OpenAI stream: delta {"role": "assistant", "content": ""}
OpenAIRoleOpener == Chunk("", "", "", TRUE, TRUE, "")

\* server.convert_claude_streaming_to_openai
convert_claude_streaming_to_openai(claude_chunk) ==
  IF claude_chunk.type = "content_block_delta" /\ claude_chunk.deltaType = "text_delta"
    THEN OpenAIDelta(claude_chunk.text)
    ELSE NoneChunk

\* server.convert_openai_streaming_to_claude
convert_openai_streaming_to_claude(openai_chunk) ==
  IF openai_chunk.choices /\ openai_chunk.hasContent
    THEN ClaudeTextDelta(openai_chunk.content)
    ELSE ClaudePing

\* the text a handler adds to its aggregate for a chunk it forwards
OpenAIChunkText(chunk) ==
  IF chunk.choices /\ chunk.hasContent /\ chunk.content # "" THEN chunk.content ELSE ""

ClaudeChunkText(chunk) ==
  IF chunk.type = "content_block_delta" /\ chunk.deltaType = "text_delta"
    THEN chunk.text ELSE ""

\* ------------------------------------------------------------ client events
\* kind "data": one `data: <chunk>` event; src is the position of the upstream
\*              chunk it was made from (history only); framing is json.dumps
\*              or the f-string of the dict itself.
\* kind "done": `data: [DONE]`.  kind "error": an error event of a shape.
DataEvent(chunk, framing, src) ==
  [kind |-> "data", chunk |-> chunk, framing |-> framing, shape |-> "",
   message |-> "", src |-> src]

DoneEvent ==
  [kind |-> "done", chunk |-> NoneChunk, framing |-> "", shape |-> "",
   message |-> "", src |-> 0]

ErrorEvent(shape, message) ==
  [kind |-> "error", chunk |-> NoneChunk, framing |-> "json", shape |-> shape,
   message |-> message, src |-> 0]


\* ------------------------------------------------------------------ CallLog
NoneStr == "<None>"

\* APICallLog with the fields the pipeline sets.  cost is in nano-USD
\* (CostNone for None); n is the output_tokens argument of calculate_metrics
\* for a streaming call and -1 for a buffered one.
Log(id, provider, model, endpoint, success, error, request, response, status, usage, cost, n) ==
  [request_id |-> id, provider |-> provider, model |-> model, endpoint |-> endpoint,
   success |-> success, error_message |-> error,
   raw_request |-> request, raw_response |-> response,
   response_status_code |-> status,
   extracted_usage |-> usage,
   estimated_cost_usd |-> cost, n |-> n,
   actual_prompt_tokens |-> TokensNone, actual_completion_tokens |-> TokensNone,
   actual_total_tokens |-> TokensNone]

\* APICallLog.extract_key_fields: OpenAI key names take usage.get("total_tokens");
\* Anthropic key names add the counts under `if prompt and completion`
extract_key_fields(log) ==
  LET usage == log.extracted_usage
  IN  IF ~usage.present THEN log
      ELSE IF usage.shape = "openai"
        THEN [log EXCEPT !.actual_prompt_tokens = usage.p,
                         !.actual_completion_tokens = usage.c,
                         !.actual_total_tokens = usage.t]
      ELSE [log EXCEPT !.actual_prompt_tokens = usage.p,
                       !.actual_completion_tokens = usage.c,
                       !.actual_total_tokens =
                         IF usage.p # 0 /\ usage.c # 0 THEN usage.p + usage.c
                         ELSE TokensNone]

NoLog == Log(-1, "", "", "", FALSE, NoneStr, EmptyDict, EmptyResp, 0, NoUsage, CostNone, -1)

\* a handle_regular_request that logs the response in the client's dialect
RegularLogTranslated(request_id, prov, request_data, response) ==
  LET usage == parse_raw_response(response)
  IN  Log(request_id, prov.name, request_data.model, "chat/completions", TRUE, NoneStr,
          request_data, convert_openai_to_claude_response(response), 200, usage,
          IF usage.present THEN estimate_cost(prov.kind, usage, request_data.model) ELSE 0,
          -1)

\* handle_regular_request, the log of the try branch
RegularLog(request_id, prov, request_data, response) ==
  LET usage == parse_raw_response(response)
  IN  Log(request_id, prov.name, request_data.model, "chat/completions", TRUE, NoneStr,
          request_data, response, 200, usage,
          IF usage.present THEN estimate_cost(prov.kind, usage, request_data.model) ELSE 0,
          -1)

\* handle_regular_request, the log of the except branch: RawAPIData and
\* EstimatedAnalysis are built with their defaults (status 200, cost None)
RegularErrorLog(request_id, prov, request_data, message) ==
  Log(request_id, prov.name, GetModel(request_data, "unknown"), "chat/completions", FALSE, message,
      request_data, EmptyResp, 200, NoUsage, CostNone, -1)

\* handle_claude_messages_regular, the log of the try branch
ClaudeRegularLog(request_id, prov, request_data, response) ==
  LET usage == IF response.hasUsage
                 THEN Usage(TRUE, "anthropic", response.p, response.c, TokensNone)
                 ELSE NoUsage
      model == GetModel(request_data, DefaultClaudeModel)
  IN  Log(request_id, prov.name, model, "messages", TRUE, NoneStr, request_data, response, 200,
          usage,
          IF usage.present THEN estimate_cost(prov.kind, usage, model) ELSE 0,
          -1)

\* handle_claude_messages_regular, the log of the except branch
ClaudeRegularErrorLog(request_id, prov, request_data, message) ==
  Log(request_id, prov.name, GetModel(request_data, DefaultClaudeModel), "messages", FALSE, message,
      request_data, EmptyResp, 200, NoUsage, CostNone, -1)

\* record_streaming_log: the log it stores (always success=True)
StreamingLog(request_id, prov, request_data, content, chunk_count) ==
  Log(request_id, prov.name, request_data.model, "chat/completions", TRUE, NoneStr,
      request_data, Resp("openai", content, FALSE, 0, 0, TokensNone), 200, NoUsage, 0, chunk_count)

\* record_claude_streaming_log: the log it stores (always success=True)
ClaudeStreamingLog(request_id, prov, request_data, content, chunk_count) ==
  Log(request_id, prov.name, GetModel(request_data, DefaultClaudeModel), "messages", TRUE, NoneStr,
      request_data, Resp("anthropic", content, FALSE, 0, 0, TokensNone), 200, NoUsage, 0, chunk_count)

\* a task made by asyncio.create_task
Task(fn, log, request_id, prov, request_data, content, chunk_count) ==
  [fn |-> fn, log |-> log, request_id |-> request_id, prov |-> prov, request_data |-> request_data,
   content |-> content, chunk_count |-> chunk_count]

\* the log a task hands to storage.store_log
TaskLog(t) ==
  IF t.fn = "store_log_async" THEN t.log
  ELSE IF t.fn = "record_streaming_log"
    THEN StreamingLog(t.request_id, t.prov, t.request_data, t.content, t.chunk_count)
  ELSE ClaudeStreamingLog(t.request_id, t.prov, t.request_data, t.content, t.chunk_count)

\* ------------------------------------------------------------------ routing
Provider(name, kind) == [name |-> name, kind |-> kind]

NoProvider == Provider("", "")

\* init_app: the provider class chosen for a configured name
ProviderOf(name) ==
  Provider(name, IF name \in {"openai", "openai-compatible"} THEN "openai" ELSE "claude")

\* model.startswith("gpt") / model.startswith("claude") over the model names used
StartsWith(model, prefix) ==
  \/ prefix = "gpt" /\ model \in {"gpt-4"}
  \/ prefix = "claude" /\ model \in {"claude-3-opus-20240229", DefaultClaudeModel}

FirstOfKind(provs, kind) ==
  LET idx == {i \in 1..Len(provs) : provs[i].kind = kind}
  IN  IF idx = {} THEN NoProvider
      ELSE provs[CHOOSE i \in idx : \A j \in idx : i <= j]

\* a router that ignores the model name
get_first_provider(provs, model) == IF provs # <<>> THEN provs[1] ELSE NoProvider

\* server.get_provider_for_model; NoProvider stands for the HTTPException(400)
get_provider_for_model(provs, model) ==
  IF StartsWith(model, "gpt") /\ FirstOfKind(provs, "openai") # NoProvider
    THEN FirstOfKind(provs, "openai")
  ELSE IF ~StartsWith(model, "gpt") /\ StartsWith(model, "claude")
          /\ FirstOfKind(provs, "claude") # NoProvider
    THEN FirstOfKind(provs, "claude")
  ELSE IF provs # <<>> THEN provs[1]
  ELSE NoProvider

\* an endpoint that never rejects a body without a model
ModelMissingNever(request_data) == FALSE

\* `if not model` of handle_openai_chat_completions_api
ModelMissing(request_data) == ~Has(request_data, "model") \/ request_data.model = ""


\* ---------------------------------------------------------------- dispatch
\* What an endpoint handler decides before its first await: the HTTP status it
\* raises (400) or 0, the provider, the routing function, the inner handler,
\* the request dict handed to the inner handler and the body sent upstream.
Plan(status, prov, route, handler, streaming, request_data, sent) ==
  [status |-> status, prov |-> prov, route |-> route, handler |-> handler,
   streaming |-> streaming, request_data |-> request_data, sent |-> sent]

Reject400 == Plan(400, NoProvider, "", "", FALSE, EmptyDict, EmptyDict)

\* handle_openai_direct_passthrough
handle_openai_direct_passthrough(prov, request_data) ==
  LET is_streaming == GetStream(request_data, FALSE)
  IN  Plan(0, prov, "handle_openai_direct_passthrough",
           IF is_streaming THEN "handle_streaming_request" ELSE "handle_regular_request",
           is_streaming, request_data, WithStream(request_data, is_streaming))

\* handle_openai_to_claude_conversion: the request is converted here and once
\* more inside ClaudeProvider.send_request / send_streaming_request
handle_openai_to_claude_conversion(prov, request_data) ==
  LET claude_request == convert_to_claude_format(request_data)
      is_streaming == GetStream(claude_request, FALSE)
  IN  Plan(0, prov, "handle_openai_to_claude_conversion",
           IF is_streaming THEN "handle_claude_to_openai_streaming_conversion"
                           ELSE "send_request",
           is_streaming, claude_request,
           WithStream(convert_to_claude_format(claude_request), is_streaming))

\* handle_claude_direct_passthrough
handle_claude_direct_passthrough(prov, request_data) ==
  LET is_streaming == GetStream(request_data, FALSE)
  IN  Plan(0, prov, "handle_claude_direct_passthrough",
           IF is_streaming THEN "handle_claude_messages_streaming"
                           ELSE "handle_claude_messages_regular",
           is_streaming, request_data, WithStream(request_data, is_streaming))

\* handle_claude_to_openai_conversion
handle_claude_to_openai_conversion(prov, request_data) ==
  LET openai_request == convert_claude_to_openai(request_data)
      is_streaming == GetStream(openai_request, FALSE)
  IN  Plan(0, prov, "handle_claude_to_openai_conversion",
           IF is_streaming THEN "handle_openai_to_claude_streaming_conversion"
                           ELSE "handle_regular_request",
           is_streaming, openai_request, WithStream(openai_request, is_streaming))

\* handle_openai_chat_completions_api
handle_openai_chat_completions_api(provs, request_data) ==
  IF ModelMissing(request_data) THEN Reject400
  ELSE LET prov == get_provider_for_model(provs, request_data.model)
       IN  IF prov = NoProvider THEN Reject400
           ELSE IF prov.kind = "openai"
             THEN handle_openai_direct_passthrough(prov, request_data)
           ELSE handle_openai_to_claude_conversion(prov, request_data)

\* handle_claude_messages_api
handle_claude_messages_api(provs, request_data) ==
  LET model == GetModel(request_data, DefaultClaudeModel)
      prov == get_provider_for_model(provs, model)
  IN  IF prov = NoProvider THEN Reject400
      ELSE IF prov.kind = "claude"
        THEN handle_claude_direct_passthrough(prov, request_data)
      ELSE handle_claude_to_openai_conversion(prov, request_data)

\* ------------------------------------------------- the streaming handlers
\* the chunk a handler forwards for an upstream chunk (NoneChunk: nothing)
Translate(h, chunk) ==
  IF h = "handle_openai_to_claude_streaming_conversion"
    THEN convert_claude_streaming_to_openai(chunk)
  ELSE IF h = "handle_claude_to_openai_streaming_conversion"
    THEN convert_openai_streaming_to_claude(chunk)
  ELSE chunk

\* the text a handler adds to its aggregate for the chunk it forwards
AggText(h, out) ==
  IF h \in {"handle_streaming_request", "handle_openai_to_claude_streaming_conversion"}
    THEN OpenAIChunkText(out)
    ELSE ClaudeChunkText(out)

Framing(h) == IF h = "handle_streaming_request" THEN "fstring" ELSE "json"

\* the shape of the error event in the except clause of a handler
ErrorShape(h) ==
  IF h \in {"handle_streaming_request", "handle_openai_to_claude_streaming_conversion"}
    THEN "openai"
    ELSE "anthropic"

\* the logging coroutine a handler schedules after its try statement
LogFn(h) ==
  IF h \in {"handle_streaming_request", "handle_openai_to_claude_streaming_conversion"}
    THEN "record_streaming_log"
    ELSE "record_claude_streaming_log"

\* a handler that puts the new event in front of the ones already sent
YieldEventFirst(evs, ev) == <<ev>> \o evs

\* `yield <event>`: the event goes to the client and the generator suspends
YieldEvent(evs, ev) == Append(evs, ev)

\* a handler that ends a stream without the sentinel
StreamEndNoDone(evs) == evs

\* `yield "data: [DONE]\n\n"` after the async for loop ended
StreamEndEvents(evs) == YieldEvent(evs, DoneEvent)

\* the except clause: one error event of the handler's shape
StreamErrorEvents(evs, h, message) == YieldEvent(evs, ErrorEvent(ErrorShape(h), message))

\* the INSERT of store_log fails on the PRIMARY KEY of api_calls.request_id
store_log_raises(rows, log) == \E i \in 1..Len(rows) : rows[i].request_id = log.request_id

\* a store_log whose statement is INSERT OR REPLACE
store_log_replace(rows, log) ==
  IF store_log_raises(rows, log)
    THEN [i \in 1..Len(rows) |->
            IF rows[i].request_id = log.request_id THEN extract_key_fields(log)
            ELSE rows[i]]
    ELSE Append(rows, extract_key_fields(log))

\* LogStorage.store_log: the key fields are extracted and one row is inserted;
\* when the INSERT raises the table is as it was
store_log(rows, log) ==
  IF store_log_raises(rows, log) THEN rows ELSE Append(rows, extract_key_fields(log))

\* request_id = f"req_{int(time.time() * 1000)}", the clock being read in ticks
\* of 1/TicksPerMs ms; the id is represented by its number of milliseconds
ReqId(t) == t \div TicksPerMs

\* -------------------------------------------------------------- the inputs
Letter(i) == <<"A", "B", "C", "D", "E">>[i]
Content(i) == <<"m1", "m2", "m3", "m4">>[i]

Roles == {"system", "user"}

MsgLists ==
  {[i \in 1..n |-> Msg(f[i], Content(i))] : n \in 0..MaxMsgs, f \in [1..MaxMsgs -> Roles]}

\* client request bodies: model absent or one of three names, "stream": true or
\* absent, the three sampling parameters present or absent together, and for
\* /v1/messages a top-level "system" or none
ClientRequests(e) ==
  {MkDict((IF model # "" THEN {"model"} ELSE {})
            \cup (IF stream THEN {"stream"} ELSE {})
            \cup (IF params THEN {"max_tokens", "temperature", "top_p"} ELSE {})
            \cup (IF sys THEN {"system"} ELSE {}),
          model, msgs, IF sys THEN "S" ELSE "",
          IF params THEN 5 ELSE 0, IF params THEN 7 ELSE 0, IF params THEN 9 ELSE 0,
          stream) :
     model \in {"", "gpt-4", "claude-3-opus-20240229", "llama-3"},
     msgs \in MsgLists, stream \in BOOLEAN, params \in BOOLEAN,
     sys \in (IF e = "messages" THEN BOOLEAN ELSE {FALSE})}

ProviderConfigs ==
  {<<>>, <<ProviderOf("openai")>>, <<ProviderOf("claude")>>,
   <<ProviderOf("openai"), ProviderOf("claude")>>,
   <<ProviderOf("claude"), ProviderOf("openai")>>,
   <<ProviderOf("claude"), ProviderOf("openai-compatible"), ProviderOf("openai")>>,
   <<ProviderOf("openai"), ProviderOf("anthropic"), ProviderOf("claude")>>}

\* what an upstream of a dialect can answer to a buffered call: with usage
\* (OpenAI with or without "total_tokens", Anthropic with an output count of 1
\* or 0) or without
UpstreamResponses(kind) ==
  LET shape == IF kind = "openai" THEN "openai" ELSE "anthropic"
  IN  IF kind = "openai"
        THEN {Resp(shape, "Hi", TRUE, 2, 1, 3), Resp(shape, "Hi", TRUE, 2, 1, TokensNone),
              Resp(shape, "Hi", FALSE, 0, 0, TokensNone)}
        ELSE {Resp(shape, "Hi", TRUE, 2, 1, TokensNone),
              Resp(shape, "Hi", TRUE, 2, 0, TokensNone),
              Resp(shape, "Hi", FALSE, 0, 0, TokensNone)}

\* the i-th chunk of an upstream stream: a text chunk or a control chunk
UpstreamChunks(kind, i) ==
  IF kind = "openai" THEN {OpenAIDelta(Letter(i)), OpenAIFinish}
  ELSE {ClaudeTextDelta(Letter(i)), ClaudePing}

\* upstream failures: an HTTP status error (raise_for_status) or a network error
Err(status, code, msg) == [status |-> status, code |-> code, msg |-> msg]

NoErr == Err(0, "", "")

UpErrors == {Err(401, "401", "Client error 401 Unauthorized"), Err(0, "", "timeout")}

\* str(e) as the handler h sees it: send_claude_messages_request and
\* send_claude_messages_streaming_request replace an HTTPStatusError by
\* Exception("Claude ... API error: <status>")
ErrStr(h, err) ==
  IF err.status # 0 /\ h = "handle_claude_messages_regular"
    THEN "Claude API error: " \o err.code
  ELSE IF err.status # 0 /\ h = "handle_claude_messages_streaming"
    THEN "Claude streaming API error: " \o err.code
  ELSE err.msg


\* ------------------------------------------------------ the cache estimator
\* The message contents the estimator is given, with what the source's string
\* functions compute for each of them.
EstContents ==
  {"You are a helpful assistant", "Be brief.", "Please summarize this text for me now",
   "How do I sort a list", "hello"}

\* utils.token_counter.count_tokens: len(re.findall(r'\w+|[^\w\s]', text))
count_tokens(text) ==
  CASE text = "You are a helpful assistant" -> 5
    [] text = "Be brief." -> 3
    [] text = "Please summarize this text for me now" -> 7
    [] text = "How do I sort a list" -> 6
    [] text = "hello" -> 1
    [] text \in {"m1", "m2", "m3", "m4", "S"} -> 1
    [] OTHER -> 0

\* len(content)
content_length(text) ==
  CASE text = "You are a helpful assistant" -> 27
    [] text = "Be brief." -> 9
    [] text = "Please summarize this text for me now" -> 37
    [] text = "How do I sort a list" -> 20
    [] text = "hello" -> 5
    [] text \in {"m1", "m2", "m3", "m4"} -> 2
    [] text = "S" -> 1
    [] OTHER -> 0

\* hashlib.md5(content.encode()).hexdigest(), one digest per content
md5(text) ==
  CASE text = "You are a helpful assistant" -> "h1"
    [] text = "Be brief." -> "h2"
    [] text = "Please summarize this text for me now" -> "h3"
    [] text = "How do I sort a list" -> "h4"
    [] text = "hello" -> "h5"
    [] OTHER -> "h:" \o text

\* the first pattern of template_patterns that re.findall matches in the
\* content (0: none), the number of capture groups of that pattern, and
\* count_tokens(" ".join(matches)) when the matches are strings
TemplateMatch(text) ==
  CASE text = "You are a helpful assistant" -> [pattern |-> 1, groups |-> 0, tokens |-> 5]
    [] text = "Please summarize this text for me now" ->
         [pattern |-> 2, groups |-> 1, tokens |-> 1]
    [] text = "How do I sort a list" -> [pattern |-> 10, groups |-> 2, tokens |-> 0]
    [] OTHER -> [pattern |-> 0, groups |-> 0, tokens |-> 0]

\* len(content.lower().split())
WordCount(text) ==
  CASE text = "You are a helpful assistant" -> 5
    [] text = "Be brief." -> 2
    [] text = "Please summarize this text for me now" -> 7
    [] text = "How do I sort a list" -> 6
    [] text = "hello" -> 1
    [] text \in {"m1", "m2", "m3", "m4", "S"} -> 1
    [] OTHER -> 0

\* the contents in which a three-word phrase occurs twice
RepeatedPhraseContents == {}

\* CacheEstimator._has_repetitive_patterns
has_repetitive_patterns(content) ==
  WordCount(content) >= 10 /\ content \in RepeatedPhraseContents

Min(a, b) == IF a <= b THEN a ELSE b
Max(a, b) == IF a >= b THEN a ELSE b

\* CacheEstimator._count_messages_tokens
RECURSIVE count_messages_tokens(_)
count_messages_tokens(messages) ==
  IF messages = <<>> THEN 0
  ELSE count_tokens(Head(messages).content) + count_messages_tokens(Tail(messages))

\* an _analyze_system_messages that counts a system message the first time too
RECURSIVE analyze_system_messages_count_first(_, _)
analyze_system_messages_count_first(cache, messages) ==
  IF messages = <<>> THEN [cached_tokens |-> 0, cache |-> cache]
  ELSE LET msg == Head(messages)
           rest == analyze_system_messages_count_first(cache \cup {md5(msg.content)},
                                                       Tail(messages))
       IN  IF msg.role # "system"
             THEN analyze_system_messages_count_first(cache, Tail(messages))
           ELSE [rest EXCEPT !.cached_tokens = @ + count_tokens(msg.content)]

\* CacheEstimator._analyze_system_messages: the tokens counted as cached and
\* the hashes in system_message_cache after the loop
RECURSIVE analyze_system_messages(_, _)
analyze_system_messages(cache, messages) ==
  IF messages = <<>> THEN [cached_tokens |-> 0, cache |-> cache]
  ELSE LET msg == Head(messages)
           content_hash == md5(msg.content)
       IN  IF msg.role # "system" THEN analyze_system_messages(cache, Tail(messages))
           ELSE IF content_hash \in cache
             THEN LET rest == analyze_system_messages(cache, Tail(messages))
                  IN  [rest EXCEPT !.cached_tokens = @ + count_tokens(msg.content)]
           ELSE analyze_system_messages(cache \cup {content_hash}, Tail(messages))

\* CacheEstimator._analyze_templates: " ".join(matches) raises TypeError when
\* the pattern has two capture groups (findall then returns tuples)
RECURSIVE analyze_templates(_)
analyze_templates(messages) ==
  IF messages = <<>> THEN [raised |-> FALSE, cached_tokens |-> 0]
  ELSE LET content == Head(messages).content
           m == TemplateMatch(content)
           rest == analyze_templates(Tail(messages))
       IN  IF m.pattern # 0 /\ m.groups >= 2 THEN [raised |-> TRUE, cached_tokens |-> 0]
           ELSE IF m.pattern # 0
             THEN [rest EXCEPT !.cached_tokens =
                                 @ + Min(m.tokens, count_tokens(content) \div 4)]
           ELSE rest

\* CacheEstimator._calculate_history_cache_probability, in tenths
calculate_history_cache_probability(message) ==
  LET base == IF message.role = "system" THEN 8 ELSE 3
      short == IF content_length(message.content) < 100 THEN 2
               ELSE IF content_length(message.content) < 500 THEN 1 ELSE 0
      repetitive == IF has_repetitive_patterns(message.content) THEN 2 ELSE 0
  IN  Min(10, base + short + repetitive)

\* sum of int(msg_tokens * cache_probability) over a list of messages
RECURSIVE HistorySum(_)
HistorySum(messages) ==
  IF messages = <<>> THEN 0
  ELSE (count_tokens(Head(messages).content)
          * calculate_history_cache_probability(Head(messages))) \div 10
       + HistorySum(Tail(messages))

\* CacheEstimator._analyze_conversation_history
analyze_conversation_history(messages) ==
  IF Len(messages) <= 2 THEN 0
  ELSE HistorySum(SubSeq(messages, 1, Len(messages) - 1))

\* CacheAnalysis; the hit rate is the fraction rate_num / rate_den; status says
\* whether the call returned it, raised, or was not made
CacheAnalysis(status, cached, fresh, rate_num, rate_den, system, template, history) ==
  [status |-> status, estimated_cached_tokens |-> cached,
   estimated_fresh_tokens |-> fresh, rate_num |-> rate_num, rate_den |-> rate_den,
   system_message_cached |-> system, template_cached |-> template,
   conversation_history_cached |-> history]

EstNone == CacheAnalysis("none", 0, 0, 0, 1, 0, 0, 0)

\* an estimate_cache_tokens that does not clamp the cached tokens to the total
estimate_cache_tokens_unclamped(cache, messages) ==
  LET total_tokens == count_messages_tokens(messages)
      sys == analyze_system_messages(cache, messages)
      template == analyze_templates(messages)
      history_cached == analyze_conversation_history(messages)
      estimated_cached == sys.cached_tokens + template.cached_tokens + history_cached
  IN  IF messages = <<>>
        THEN [result |-> CacheAnalysis("returned", 0, 0, 0, 1, 0, 0, 0), cache |-> cache]
      ELSE IF template.raised
        THEN [result |-> CacheAnalysis("raised", 0, 0, 0, 1, 0, 0, 0), cache |-> sys.cache]
      ELSE [result |-> CacheAnalysis("returned", estimated_cached,
                                     Max(0, total_tokens - estimated_cached),
                                     IF total_tokens > 0 THEN estimated_cached ELSE 0,
                                     IF total_tokens > 0 THEN total_tokens ELSE 1,
                                     sys.cached_tokens, template.cached_tokens,
                                     history_cached),
            cache |-> sys.cache]

\* CacheEstimator.estimate_cache_tokens: the CacheAnalysis returned (or the
\* exception raised) and system_message_cache after the call
estimate_cache_tokens(cache, messages) ==
  LET total_tokens == count_messages_tokens(messages)
      sys == analyze_system_messages(cache, messages)
      template == analyze_templates(messages)
      history_cached == analyze_conversation_history(messages)
      estimated_cached ==
        Min(total_tokens, sys.cached_tokens + template.cached_tokens + history_cached)
      estimated_fresh == Max(0, total_tokens - estimated_cached)
  IN  IF messages = <<>>
        THEN [result |-> CacheAnalysis("returned", 0, 0, 0, 1, 0, 0, 0), cache |-> cache]
      ELSE IF template.raised
        THEN [result |-> CacheAnalysis("raised", 0, 0, 0, 1, 0, 0, 0), cache |-> sys.cache]
      ELSE [result |-> CacheAnalysis("returned", estimated_cached, estimated_fresh,
                                     IF total_tokens > 0 THEN estimated_cached ELSE 0,
                                     IF total_tokens > 0 THEN total_tokens ELSE 1,
                                     sys.cached_tokens, template.cached_tokens,
                                     history_cached),
            cache |-> sys.cache]

\* the messages the estimator is given: system prompts and user turns
EstMessages ==
  {Msg("system", "You are a helpful assistant"), Msg("system", "Be brief."),
   Msg("user", "Please summarize this text for me now"),
   Msg("user", "How do I sort a list"), Msg("user", "hello")}

EstMessageLists == UNION {[1..n -> EstMessages] : n \in 0..MaxEstMsgs}


\* ------------------------------------------------- the performance tracker
\* Times are clock readings in ticks (TicksPerMs ticks to the millisecond);
\* 0 stands for None in request_start and first_token_time, MsNone for a
\* field of PerformanceAnalysis that is None.

\* int(seconds * 1000) of a non-negative time t
Ms(t) == t \div TicksPerMs

\* round(num / den, 2) in hundredths, halves to the even hundredth
Round2(num, den) ==
  LET q == (num * 100) \div den
      r == (num * 100) % den
  IN  IF 2 * r > den \/ (2 * r = den /\ q % 2 = 1) THEN q + 1 ELSE q

\* PerformanceAnalysis: tpot_ms and tokens_per_second in hundredths; status
\* "returned", "raised" (ValueError) or "none" (no call made)
PerformanceAnalysis(status, ttft_ms, tpot_ms, total_latency_ms, tokens_per_second) ==
  [status |-> status, ttft_ms |-> ttft_ms, tpot_ms |-> tpot_ms,
   total_latency_ms |-> total_latency_ms, tokens_per_second |-> tokens_per_second]

NoMetrics == PerformanceAnalysis("none", MsNone, MsNone, 0, MsNone)

\* PerformanceTracker.calculate_metrics(output_tokens) called at time t; the
\* total latency is int(token_timestamps[-1] * 1000) when a token was recorded
\* (the conditional expression binds weaker than the subtraction)
calculate_metrics(start, first, timestamps, output_tokens, t) ==
  IF start = 0 THEN PerformanceAnalysis("raised", MsNone, MsNone, 0, MsNone)
  ELSE IF first = 0
    THEN PerformanceAnalysis("returned", MsNone, MsNone, Ms(t - start), MsNone)
  ELSE LET generation_time == timestamps[Len(timestamps)] - first
           measured == Len(timestamps) > 1 /\ output_tokens > 0 /\ generation_time > 0
       IN  PerformanceAnalysis("returned", Ms(first - start),
             IF measured THEN Round2(generation_time, TicksPerMs * output_tokens)
             ELSE MsNone,
             IF timestamps # <<>> THEN Ms(timestamps[Len(timestamps)])
             ELSE Ms(t - start),
             IF measured THEN Round2(output_tokens * 1000 * TicksPerMs, generation_time)
             ELSE MsNone)

\* ------------------------------------------------------------------- state
VARIABLES
  providers,       \* server.providers: the configured providers, in order
  storage,         \* whether server.storage is set (logging enabled)
  pc,              \* where the request is: idle, await_upstream, stream_read,
                   \* stream_yield, stream_final, done, closed
  endpoint,        \* "chat" (/v1/chat/completions) or "messages" (/v1/messages)
  req,             \* the client's request body
  prov,            \* the provider chosen by get_provider_for_model
  route,           \* the routing function that took the request
  handler,         \* the inner handler that awaits the upstream
  request_data,    \* the request dict the inner handler was given
  sent,            \* the JSON body posted upstream
  upstream_called, \* whether an upstream call was issued
  outcome,         \* none, returned, failed (buffered), ended, raised (stream)
  up_err,          \* the upstream failure
  up_resp,         \* the upstream's buffered response
  arrived,         \* the upstream chunks read so far
  events,          \* the events delivered to the client
  http,            \* the HTTP response: status (0: none yet) and JSON body
  chunk_count,     \* len(response_chunks)
  full_content,    \* the text aggregated for the log
  tasks,           \* the logging tasks created and not yet run
  logs,            \* the rows of the api_calls table
  store_failures,  \* how many store_log calls raised
  request_id,      \* the request_id given to the request (-1: none yet)
  now,             \* time.time(), in ticks
  rpc,             \* concurrent requests: "new", "running" or "done"
  rid,             \* concurrent requests: the request_id of each (-1: none yet)
  log_queue,       \* APILogger._log_queue
  shutdown,        \* APILogger._shutdown
  logger_task,     \* APILogger._logger_task: "none", "running" or "finished"
  stop_pc,         \* APILogger.stop(): "idle", "awaiting" or "returned"
  accepted,        \* the request_ids of the logs log_request has enqueued
  dropped,         \* the request_ids of the logs the worker took and did not store
  started,         \* whether start() has created the worker task
  system_message_cache,  \* CacheEstimator.system_message_cache (the contents seen)
  est_messages,    \* the argument of the last estimate_cache_tokens call
  est_result,      \* what the last estimate_cache_tokens call returned or raised
  rt_pc,           \* request conversion: "idle", "converted" or "back"
  rt_request,      \* the OpenAI request given to _convert_to_claude_format
  rt_claude,       \* what _convert_to_claude_format returned for it
  rt_openai,       \* what convert_claude_to_openai returned for rt_claude
  perf_pc,         \* the tracked streaming call: "new", "streaming" or "logged"
  perf_handler,    \* the streaming handler that runs the tracked call
  request_start,   \* PerformanceTracker.request_start (0: None), in ticks
  first_token_time,  \* PerformanceTracker.first_token_time (0: None), in ticks
  token_timestamps,  \* PerformanceTracker.token_timestamps, in ticks
  response_chunks, \* len(response_chunks) of the handler
  performance_metrics,  \* what calculate_metrics returned in record_streaming_log
  tr_dir,          \* the translator applied to a stream of chunks
  tr_in,           \* the upstream chunks given to the translator so far
  tr_out,          \* what the translator returned for each of them
  est_req,         \* in-flight requests: the messages of each
  est_of,          \* in-flight requests: the CacheAnalysis each was given
  est_order        \* the requests in the order of their estimate_cache_tokens calls

vars == <<providers, storage, pc, endpoint, req, prov, route, handler, request_data,
          sent, upstream_called, outcome, up_err, up_resp, arrived, events, http,
          chunk_count, full_content, tasks, logs, store_failures, request_id,
          now, rpc, rid, log_queue, shutdown, logger_task, stop_pc, accepted, dropped,
          started, system_message_cache, est_messages, est_result,
          rt_pc, rt_request, rt_claude, rt_openai,
          perf_pc, perf_handler, request_start, first_token_time, token_timestamps,
          response_chunks, performance_metrics, tr_dir, tr_in, tr_out,
          est_req, est_of, est_order>>

gateway_vars ==
  <<providers, storage, pc, endpoint, req, prov, route, handler, request_data, sent,
    upstream_called, outcome, up_err, up_resp, arrived, events, http, chunk_count,
    full_content, request_id>>

concurrent_vars == <<now, rpc, rid>>

logger_vars == <<log_queue, shutdown, logger_task, stop_pc, accepted, dropped, started>>

cache_vars == <<system_message_cache, est_messages, est_result>>

roundtrip_vars == <<rt_pc, rt_request, rt_claude, rt_openai>>

perf_vars ==
  <<perf_pc, perf_handler, request_start, first_token_time, token_timestamps,
    response_chunks, performance_metrics>>

translate_vars == <<tr_dir, tr_in, tr_out>>

estimators_vars == <<est_req, est_of, est_order>>

Requests == 1..MaxRequests

Http(status, body) == [status |-> status, body |-> body]

\* no request accepted yet
InitRequest ==
  /\ pc = "idle"
  /\ endpoint = ""
  /\ req = EmptyDict
  /\ prov = NoProvider
  /\ route = ""
  /\ handler = ""
  /\ request_data = EmptyDict
  /\ sent = EmptyDict
  /\ upstream_called = FALSE
  /\ outcome = "none"
  /\ up_err = NoErr
  /\ up_resp = EmptyResp
  /\ arrived = <<>>
  /\ events = <<>>
  /\ http = Http(0, EmptyResp)
  /\ chunk_count = 0
  /\ full_content = ""
  /\ request_id = -1

\* an empty api_calls table and no logging task
InitStore ==
  /\ tasks = <<>>
  /\ logs = <<>>
  /\ store_failures = 0

InitClock ==
  /\ now = 0
  /\ rpc = [r \in Requests |-> "new"]
  /\ rid = [r \in Requests |-> -1]

\* APILogger.__init__
InitLogger ==
  /\ log_queue = <<>>
  /\ shutdown = FALSE
  /\ logger_task = "none"
  /\ stop_pc = "idle"
  /\ accepted = {}
  /\ dropped = {}
  /\ started = FALSE

\* CacheEstimator.__init__ (EstNone: estimate_cache_tokens not called yet)
InitCache ==
  /\ system_message_cache = {}
  /\ est_messages = <<>>
  /\ est_result = EstNone

\* no request converted yet
InitRoundTrip ==
  /\ rt_pc = "idle"
  /\ rt_request = EmptyDict
  /\ rt_claude = EmptyDict
  /\ rt_openai = EmptyDict

\* PerformanceTracker.__init__ (no tracked call yet)
InitTracker ==
  /\ perf_pc = "new"
  /\ perf_handler = ""
  /\ request_start = 0
  /\ first_token_time = 0
  /\ token_timestamps = <<>>
  /\ response_chunks = 0
  /\ performance_metrics = NoMetrics

\* no chunk translated yet
InitTranslate ==
  /\ tr_dir = ""
  /\ tr_in = <<>>
  /\ tr_out = <<>>

\* no request in flight at the estimator
InitEstimators ==
  /\ est_req = [r \in Requests |-> <<>>]
  /\ est_of = [r \in Requests |-> EstNone]
  /\ est_order = <<>>

Init ==
  /\ providers \in ProviderConfigs
  /\ storage \in BOOLEAN
  /\ InitRequest
  /\ InitStore
  /\ InitClock
  /\ InitLogger
  /\ InitCache
  /\ InitRoundTrip
  /\ InitTracker
  /\ InitTranslate
  /\ InitEstimators

\* A request arrives at an endpoint; the endpoint handler runs up to its first
\* await: it rejects with 400, or issues the upstream call (for a streaming
\* request the StreamingResponse is returned and its generator started).
Accept(e, r) ==
  /\ pc = "idle"
  /\ LET plan == IF e = "chat" THEN handle_openai_chat_completions_api(providers, r)
                 ELSE handle_claude_messages_api(providers, r)
     IN  /\ endpoint' = e
         /\ req' = r
         /\ request_id' = ReqId(now)
         /\ prov' = plan.prov
         /\ route' = plan.route
         /\ handler' = plan.handler
         /\ request_data' = plan.request_data
         /\ sent' = plan.sent
         /\ upstream_called' = (plan.status = 0)
         /\ pc' = IF plan.status # 0 THEN "done"
                  ELSE IF plan.streaming THEN "stream_read" ELSE "await_upstream"
         /\ http' = IF plan.status # 0 THEN Http(plan.status, EmptyResp)
                    ELSE IF plan.streaming THEN Http(200, EmptyResp)
                    ELSE http
  /\ UNCHANGED <<roundtrip_vars, perf_vars, translate_vars, estimators_vars,
                 logger_vars, cache_vars, now, rpc, rid, providers, storage, outcome, up_err, up_resp, arrived,
                 events, chunk_count, full_content, tasks, logs, store_failures>>

\* asyncio.create_task(...) under `if storage:`
CreateTask(ts, t) == IF storage THEN Append(ts, t) ELSE ts

\* whether a buffered handler calls cache_estimator.estimate_cache_tokens
CallsEstimator(h) == h \in {"handle_regular_request", "handle_claude_messages_regular"}

\* str(e) of the TypeError raised by " ".join(matches) in _analyze_templates
TemplateTypeError == "sequence item 0: expected str instance, tuple found"

\* `cache_analysis = cache_estimator.estimate_cache_tokens(messages)` when the
\* code path makes the call: the shared estimator's state after it
ApplyEstimate(called, messages) ==
  IF called
    THEN LET e == estimate_cache_tokens(system_message_cache, messages)
         IN  /\ system_message_cache' = e.cache
             /\ est_result' = e.result
             /\ est_messages' = messages
    ELSE UNCHANGED cache_vars

\* whether that call raises
EstimateRaises(called, messages) ==
  called /\ estimate_cache_tokens(system_message_cache, messages).result.status = "raised"

\* The buffered upstream call returns: the rest of the handler runs. When a
\* statement of the try block raises after the call (the cache estimation),
\* the except branch creates the error log and re-raises, and the endpoint
\* handler answers 500.
UpstreamReturn(response) ==
  /\ pc = "await_upstream"
  /\ outcome' = "returned"
  /\ up_resp' = response
  /\ ApplyEstimate(CallsEstimator(handler), request_data.messages)
  /\ tasks' =
       IF handler = "handle_regular_request"
         THEN CreateTask(tasks, Task("store_log_async",
                IF EstimateRaises(TRUE, request_data.messages)
                  THEN RegularErrorLog(request_id, prov, request_data, TemplateTypeError)
                  ELSE RegularLog(request_id, prov, request_data, response),
                request_id, prov, request_data, "", 0))
       ELSE IF handler = "handle_claude_messages_regular"
         THEN CreateTask(tasks, Task("store_log_async",
                IF EstimateRaises(TRUE, request_data.messages)
                  THEN ClaudeRegularErrorLog(request_id, prov, request_data,
                                             TemplateTypeError)
                  ELSE ClaudeRegularLog(request_id, prov, request_data, response),
                request_id, prov, request_data, "", 0))
       ELSE tasks
  /\ http' =
       IF EstimateRaises(CallsEstimator(handler), request_data.messages)
         THEN Http(500, EmptyResp)
       ELSE IF route = "handle_claude_to_openai_conversion"
         THEN Http(200, convert_openai_to_claude_response(response))
       ELSE IF route = "handle_openai_to_claude_conversion"
         THEN Http(200, normalize_response(response))
       ELSE Http(200, response)
  /\ pc' = "done"
  /\ UNCHANGED <<roundtrip_vars, perf_vars, translate_vars, estimators_vars,
                 logger_vars, now, rpc, rid, request_id, providers, storage, endpoint,
                 req, prov, route, handler, request_data, sent, upstream_called, up_err,
                 arrived, events, chunk_count, full_content, logs, store_failures>>

\* The buffered upstream call raises: the except branch of the inner handler
\* runs and re-raises; the endpoint handler turns it into HTTPException(500).
UpstreamFail(err) ==
  /\ pc = "await_upstream"
  /\ outcome' = "failed"
  /\ up_err' = err
  /\ tasks' =
       IF handler = "handle_regular_request"
         THEN CreateTask(tasks, Task("store_log_async",
                RegularErrorLog(request_id, prov, request_data, ErrStr(handler, err)),
                request_id, prov, request_data, "", 0))
       ELSE IF handler = "handle_claude_messages_regular"
         THEN CreateTask(tasks, Task("store_log_async",
                ClaudeRegularErrorLog(request_id, prov, request_data, ErrStr(handler, err)),
                request_id, prov, request_data, "", 0))
       ELSE tasks
  /\ http' = Http(500, EmptyResp)
  /\ pc' = "done"
  /\ UNCHANGED <<roundtrip_vars, perf_vars, translate_vars, estimators_vars,
                 logger_vars, cache_vars, now, rpc, rid, request_id, providers, storage, endpoint, req, prov, route, handler, request_data,
                 sent, upstream_called, up_resp, arrived, events, chunk_count,
                 full_content, logs, store_failures>>

\* The upstream stream delivers its next chunk: one iteration of the async for
\* loop, up to the yield (or back to the read when nothing is forwarded).
UpstreamChunk(chunk) ==
  /\ pc = "stream_read"
  /\ Len(arrived) < MaxChunks
  /\ arrived' = Append(arrived, chunk)
  /\ LET out == Translate(handler, chunk)
     IN  IF out = NoneChunk
           THEN /\ pc' = "stream_read"
                /\ UNCHANGED <<roundtrip_vars, perf_vars, translate_vars, estimators_vars,
                 events, chunk_count, full_content>>
           ELSE /\ chunk_count' = chunk_count + 1
                /\ full_content' = full_content \o AggText(handler, out)
                /\ events' = YieldEvent(events,
                               DataEvent(out, Framing(handler), Len(arrived) + 1))
                /\ pc' = "stream_yield"
  /\ UNCHANGED <<roundtrip_vars, perf_vars, translate_vars, estimators_vars,
                 logger_vars, cache_vars, now, rpc, rid, request_id, providers, storage, endpoint, req, prov, route, handler, request_data,
                 sent, upstream_called, outcome, up_err, up_resp, http, tasks, logs, store_failures>>

\* The upstream stream ends: the handler yields the [DONE] event.
UpstreamEnd ==
  /\ pc = "stream_read"
  /\ outcome' = "ended"
  /\ events' = StreamEndEvents(events)
  /\ pc' = "stream_final"
  /\ UNCHANGED <<roundtrip_vars, perf_vars, translate_vars, estimators_vars,
                 logger_vars, cache_vars, now, rpc, rid, request_id, providers, storage, endpoint, req, prov, route, handler, request_data,
                 sent, upstream_called, up_err, up_resp, arrived, http, chunk_count,
                 full_content, tasks, logs, store_failures>>

\* The upstream stream raises: the except clause yields the error event.
UpstreamRaise(err) ==
  /\ pc = "stream_read"
  /\ outcome' = "raised"
  /\ up_err' = err
  /\ events' = StreamErrorEvents(events, handler, ErrStr(handler, err))
  /\ pc' = "stream_final"
  /\ UNCHANGED <<roundtrip_vars, perf_vars, translate_vars, estimators_vars,
                 logger_vars, cache_vars, now, rpc, rid, request_id, providers, storage, endpoint, req, prov, route, handler, request_data,
                 sent, upstream_called, up_resp, arrived, http, chunk_count,
                 full_content, tasks, logs, store_failures>>

\* The client takes the event and asks for the next one: after a data event
\* the loop reads on; after the last event the code behind the try statement
\* schedules the logging task and the generator returns.
ClientResume ==
  /\ pc \in {"stream_yield", "stream_final"}
  /\ IF pc = "stream_yield"
       THEN pc' = "stream_read" /\ UNCHANGED tasks
       ELSE /\ pc' = "done"
            /\ tasks' = CreateTask(tasks, Task(LogFn(handler), NoLog, request_id, prov,
                                               request_data, full_content, chunk_count))
  /\ UNCHANGED <<roundtrip_vars, perf_vars, translate_vars, estimators_vars,
                 logger_vars, cache_vars, now, rpc, rid, request_id, providers, storage, endpoint, req, prov, route, handler, request_data,
                 sent, upstream_called, outcome, up_err, up_resp, arrived, events, http,
                 chunk_count, full_content, logs, store_failures>>

\* The client disconnects during a streaming response: the generator is closed
\* where it is suspended (GeneratorExit at a yield, CancelledError at the
\* upstream read); neither is an Exception, so the except clause does not run
\* and the statements behind the try statement are not reached.
ClientDisconnect ==
  /\ pc \in {"stream_read", "stream_yield", "stream_final"}
  /\ pc' = "closed"
  /\ UNCHANGED <<roundtrip_vars, perf_vars, translate_vars, estimators_vars,
                 logger_vars, cache_vars, now, rpc, rid, request_id, providers, storage, endpoint, req, prov, route, handler, request_data,
                 sent, upstream_called, outcome, up_err, up_resp, arrived, events, http,
                 chunk_count, full_content, tasks, logs, store_failures>>

\* whether a logging coroutine calls cache_estimator.estimate_cache_tokens
\* before it builds its log (record_streaming_log, record_claude_streaming_log)
TaskCallsEstimator(t) == t.fn # "store_log_async"

\* A logging task runs: store_log_async, record_streaming_log or
\* record_claude_streaming_log hands its log to storage.store_log; when the
\* INSERT raises, the except clause of the task logs the failure. A streaming
\* log is built in the task, after the cache estimation; when that raises, the
\* same except clause ends the task before store_log.
RunLogTask ==
  /\ tasks # <<>>
  /\ LET t == Head(tasks)
         raised == EstimateRaises(TaskCallsEstimator(t), t.request_data.messages)
     IN  /\ ApplyEstimate(TaskCallsEstimator(t), t.request_data.messages)
         /\ logs' = IF raised THEN logs ELSE store_log(logs, TaskLog(t))
         /\ store_failures' = IF ~raised /\ store_log_raises(logs, TaskLog(t))
                                THEN store_failures + 1 ELSE store_failures
  /\ tasks' = Tail(tasks)
  /\ UNCHANGED <<roundtrip_vars, perf_vars, translate_vars, estimators_vars,
                 logger_vars, now, rpc, rid, request_id, providers, storage, pc,
                 endpoint, req, prov, route, handler, request_data, sent,
                 upstream_called, outcome, up_err, up_resp, arrived, events, http,
                 chunk_count, full_content>>

\* a logging task without the except clause: the failure of store_log reaches
\* the response
RunLogTaskFailPropagates ==
  /\ tasks # <<>>
  /\ ~EstimateRaises(TaskCallsEstimator(Head(tasks)), Head(tasks).request_data.messages)
  /\ ApplyEstimate(TaskCallsEstimator(Head(tasks)), Head(tasks).request_data.messages)
  /\ tasks' = Tail(tasks)
  /\ store_failures' = store_failures + 1
  /\ http' = Http(500, EmptyResp)
  /\ UNCHANGED <<roundtrip_vars, perf_vars, translate_vars, estimators_vars,
                 logger_vars, now, rpc, rid, request_id, providers, storage, pc,
                 endpoint, req, prov, route, handler, request_data, sent,
                 upstream_called, outcome, up_err, up_resp, arrived, events,
                 chunk_count, full_content, logs>>

\* A logging task runs and storage.store_log raises for another reason (the
\* database is locked, the disk is full): the except clause of store_log_async /
\* record_streaming_log / record_claude_streaming_log logs the failure and
\* the task ends.
RunLogTaskFail ==
  /\ tasks # <<>>
  /\ ~EstimateRaises(TaskCallsEstimator(Head(tasks)), Head(tasks).request_data.messages)
  /\ ApplyEstimate(TaskCallsEstimator(Head(tasks)), Head(tasks).request_data.messages)
  /\ tasks' = Tail(tasks)
  /\ store_failures' = store_failures + 1
  /\ UNCHANGED <<roundtrip_vars, perf_vars, translate_vars, estimators_vars,
                 logger_vars, now, rpc, rid, request_id, providers, storage, pc,
                 endpoint, req, prov, route, handler, request_data, sent,
                 upstream_called, outcome, up_err, up_resp, arrived, events, http,
                 chunk_count, full_content, logs>>

Next ==
  \/ \E e \in {"chat", "messages"} : \E r \in ClientRequests(e) : Accept(e, r)
  \/ \E response \in UpstreamResponses(prov.kind) : UpstreamReturn(response)
  \/ \E err \in UpErrors : UpstreamFail(err)
  \/ \E chunk \in UpstreamChunks(prov.kind, Len(arrived) + 1) : UpstreamChunk(chunk)
  \/ UpstreamEnd
  \/ \E err \in UpErrors : UpstreamRaise(err)
  \/ ClientResume
  \/ ClientDisconnect
  \/ RunLogTask
  \/ RunLogTaskFail

Spec == Init /\ [][Next]_vars

\* ------------------------------------------- requests handled concurrently
\* Several requests are in flight on the event loop; of each only what its
\* CallLog's key depends on is kept: the clock reading at its acceptance and
\* the log its buffered OpenAI passthrough handler builds.
RequestOf(r) ==
  MkDict({"model"}, "gpt-4", <<Msg("user", Content(r))>>, "", 0, 0, 0, FALSE)

InitConcurrent ==
  /\ providers = <<ProviderOf("openai")>>
  /\ storage = TRUE
  /\ InitRequest
  /\ InitStore
  /\ InitClock
  /\ InitLogger
  /\ InitCache
  /\ InitRoundTrip
  /\ InitTracker
  /\ InitTranslate
  /\ InitEstimators

\* time passes
Tick ==
  /\ now < MaxClock
  /\ now' = now + 1
  /\ UNCHANGED <<roundtrip_vars, perf_vars, translate_vars, estimators_vars,
                 logger_vars, cache_vars, rpc, rid, request_id, providers, storage, pc, endpoint, req, prov,
                 route, handler, request_data, sent, upstream_called, outcome, up_err,
                 up_resp, arrived, events, http, chunk_count, full_content, tasks, logs,
                 store_failures>>

\* An endpoint handler starts for request r and assigns its request_id.
AcceptRequest(r) ==
  /\ rpc[r] = "new"
  /\ rid' = [rid EXCEPT ![r] = ReqId(now)]
  /\ rpc' = [rpc EXCEPT ![r] = "running"]
  /\ UNCHANGED <<roundtrip_vars, perf_vars, translate_vars, estimators_vars,
                 logger_vars, cache_vars, now, request_id, providers, storage, pc, endpoint, req, prov,
                 route, handler, request_data, sent, upstream_called, outcome, up_err,
                 up_resp, arrived, events, http, chunk_count, full_content, tasks, logs,
                 store_failures>>

\* The upstream call of request r returns: handle_regular_request builds the
\* log and schedules store_log_async.
FinishRequest(r, response) ==
  /\ rpc[r] = "running"
  /\ tasks' = CreateTask(tasks, Task("store_log_async",
                 RegularLog(rid[r], providers[1], RequestOf(r), response),
                 rid[r], providers[1], RequestOf(r), "", 0))
  /\ rpc' = [rpc EXCEPT ![r] = "done"]
  /\ UNCHANGED <<roundtrip_vars, perf_vars, translate_vars, estimators_vars,
                 logger_vars, cache_vars, now, rid, request_id, providers, storage, pc, endpoint, req, prov,
                 route, handler, request_data, sent, upstream_called, outcome, up_err,
                 up_resp, arrived, events, http, chunk_count, full_content, logs,
                 store_failures>>

NextConcurrent ==
  \/ Tick
  \/ \E r \in Requests : AcceptRequest(r)
  \/ \E r \in Requests : \E response \in UpstreamResponses("openai") :
       FinishRequest(r, response)
  \/ RunLogTask

SpecConcurrent == InitConcurrent /\ [][NextConcurrent]_vars

\* ------------------------------------------------------------ the APILogger
\* the log of request r handed to APILogger.log_request
LoggerLog(r) ==
  RegularLog(r, ProviderOf("openai"), RequestOf(r), Resp("openai", "Hi", TRUE, 2, 1, 3))

InitLoggerSpec ==
  /\ providers = <<ProviderOf("openai")>>
  /\ storage = TRUE
  /\ InitRequest
  /\ InitStore
  /\ InitClock
  /\ InitLogger
  /\ InitCache
  /\ InitRoundTrip
  /\ InitTracker
  /\ InitTranslate
  /\ InitEstimators

\* APILogger.start
LoggerStart ==
  /\ logger_task = "none"
  /\ logger_task' = "running"
  /\ started' = TRUE
  /\ UNCHANGED <<roundtrip_vars, perf_vars, translate_vars, estimators_vars,
                 gateway_vars, concurrent_vars, cache_vars, tasks, logs, store_failures,
                 log_queue, shutdown, stop_pc, accepted, dropped>>

\* APILogger.log_request while the shutdown flag is not set
LogRequest(r) ==
  /\ ~shutdown
  /\ r \notin accepted
  /\ log_queue' = Append(log_queue, LoggerLog(r))
  /\ accepted' = accepted \cup {r}
  /\ UNCHANGED <<roundtrip_vars, perf_vars, translate_vars, estimators_vars,
                 gateway_vars, concurrent_vars, cache_vars, tasks, logs, store_failures,
                 shutdown, logger_task, stop_pc, dropped, started>>

\* APILogger._log_worker: queue.get() returns a log and store_log stores it
WorkerStore ==
  /\ logger_task = "running"
  /\ log_queue # <<>>
  /\ ~store_log_raises(logs, Head(log_queue))
  /\ logs' = store_log(logs, Head(log_queue))
  /\ log_queue' = Tail(log_queue)
  /\ UNCHANGED <<roundtrip_vars, perf_vars, translate_vars, estimators_vars,
                 gateway_vars, concurrent_vars, cache_vars, tasks, store_failures,
                 shutdown, logger_task, stop_pc, accepted, dropped, started>>

\* APILogger._log_worker: queue.get() returns a log and store_log raises; the
\* outer except clause logs the error and the loop goes on without the log
WorkerStoreRaises ==
  /\ logger_task = "running"
  /\ log_queue # <<>>
  /\ log_queue' = Tail(log_queue)
  /\ dropped' = dropped \cup {Head(log_queue).request_id}
  /\ store_failures' = store_failures + 1
  /\ UNCHANGED <<roundtrip_vars, perf_vars, translate_vars, estimators_vars,
                 gateway_vars, concurrent_vars, cache_vars, tasks, logs,
                 shutdown, logger_task, stop_pc, accepted, started>>

\* a worker that leaves its loop as soon as the shutdown flag is set
WorkerExitOnShutdown ==
  /\ logger_task = "running"
  /\ shutdown
  /\ logger_task' = "finished"
  /\ UNCHANGED <<roundtrip_vars, perf_vars, translate_vars, estimators_vars,
                 gateway_vars, concurrent_vars, cache_vars, tasks, logs, store_failures,
                 log_queue, shutdown, stop_pc, accepted, dropped, started>>

\* APILogger._log_worker: the loop condition fails (shutdown set, queue empty)
WorkerExit ==
  /\ logger_task = "running"
  /\ shutdown
  /\ log_queue = <<>>
  /\ logger_task' = "finished"
  /\ UNCHANGED <<roundtrip_vars, perf_vars, translate_vars, estimators_vars,
                 gateway_vars, concurrent_vars, cache_vars, tasks, logs, store_failures,
                 log_queue, shutdown, stop_pc, accepted, dropped, started>>

\* APILogger.stop, up to `await self._logger_task` (or to its return when
\* there is no worker task)
LoggerStop ==
  /\ stop_pc = "idle"
  /\ shutdown' = TRUE
  /\ stop_pc' = IF logger_task = "none" THEN "returned" ELSE "awaiting"
  /\ UNCHANGED <<roundtrip_vars, perf_vars, translate_vars, estimators_vars,
                 gateway_vars, concurrent_vars, cache_vars, tasks, logs, store_failures,
                 log_queue, logger_task, accepted, dropped, started>>

\* APILogger.stop, after the worker task has finished
LoggerStopReturn ==
  /\ stop_pc = "awaiting"
  /\ logger_task = "finished"
  /\ logger_task' = "none"
  /\ stop_pc' = "returned"
  /\ UNCHANGED <<roundtrip_vars, perf_vars, translate_vars, estimators_vars,
                 gateway_vars, concurrent_vars, cache_vars, tasks, logs, store_failures,
                 log_queue, shutdown, accepted, dropped, started>>

NextLogger ==
  \/ LoggerStart
  \/ \E r \in Requests : LogRequest(r)
  \/ WorkerStore
  \/ WorkerStoreRaises
  \/ WorkerExit
  \/ LoggerStop
  \/ LoggerStopReturn

SpecLogger == InitLoggerSpec /\ [][NextLogger]_vars

\* The event loop runs the worker task whenever it can take a step (the
\* wait_for timeout brings it back to its loop condition) and resumes stop()
\* once the awaited task has finished.
SpecLoggerFair ==
  /\ SpecLogger
  /\ WF_vars(WorkerStore \/ WorkerStoreRaises)
  /\ WF_vars(WorkerExit)
  /\ WF_vars(LoggerStopReturn)

\* ------------------------------------------ calls of the cache estimator
InitCacheSpec ==
  /\ providers = <<ProviderOf("openai")>>
  /\ storage = TRUE
  /\ InitRequest
  /\ InitStore
  /\ InitClock
  /\ InitLogger
  /\ InitCache
  /\ InitRoundTrip
  /\ InitTracker
  /\ InitTranslate
  /\ InitEstimators

\* one call of cache_estimator.estimate_cache_tokens(messages)
EstimateCacheTokens(messages) ==
  /\ LET r == estimate_cache_tokens(system_message_cache, messages)
     IN  /\ system_message_cache' = r.cache
         /\ est_result' = r.result
  /\ est_messages' = messages
  /\ UNCHANGED <<roundtrip_vars, perf_vars, translate_vars, estimators_vars,
                 gateway_vars, concurrent_vars, logger_vars, tasks, logs, store_failures>>

NextCache == \E messages \in EstMessageLists : EstimateCacheTokens(messages)

SpecCache == InitCacheSpec /\ [][NextCache]_vars

\* ------------------------------------------- a request converted and back
\* the OpenAI requests _convert_to_claude_format accepts (request["model"])
ValidOpenAIRequests == {r \in ClientRequests("chat") : Has(r, "model")}

InitRoundTripSpec ==
  /\ providers = <<ProviderOf("claude")>>
  /\ storage = TRUE
  /\ InitRequest
  /\ InitStore
  /\ InitClock
  /\ InitLogger
  /\ InitCache
  /\ InitRoundTrip
  /\ InitTracker
  /\ InitTranslate
  /\ InitEstimators

\* ClaudeProvider._convert_to_claude_format(request)
ConvertToClaude(request) ==
  /\ rt_request' = request
  /\ rt_claude' = convert_to_claude_format(request)
  /\ rt_openai' = EmptyDict
  /\ rt_pc' = "converted"
  /\ UNCHANGED <<gateway_vars, concurrent_vars, logger_vars, cache_vars, perf_vars,
                 translate_vars, estimators_vars, tasks, logs, store_failures>>

\* convert_claude_to_openai applied to the converted request
ConvertBack ==
  /\ rt_pc = "converted"
  /\ rt_openai' = convert_claude_to_openai(rt_claude)
  /\ rt_pc' = "back"
  /\ UNCHANGED <<gateway_vars, concurrent_vars, logger_vars, cache_vars, perf_vars,
                 translate_vars, estimators_vars, tasks, logs, store_failures,
                 rt_request, rt_claude>>

NextRoundTrip ==
  \/ \E request \in ValidOpenAIRequests : ConvertToClaude(request)
  \/ ConvertBack

SpecRoundTrip == InitRoundTripSpec /\ [][NextRoundTrip]_vars

\* ------------------------------------------------ a tracked streaming call
StreamingHandlers ==
  {"handle_streaming_request", "handle_claude_to_openai_streaming_conversion",
   "handle_claude_messages_streaming", "handle_openai_to_claude_streaming_conversion"}

\* the kind of the provider whose stream a streaming handler reads, by the
\* route that starts the handler
UpstreamKindOf(h) ==
  IF h \in {"handle_streaming_request", "handle_openai_to_claude_streaming_conversion"}
    THEN "openai" ELSE "claude"

\* time.time() is positive when the first request arrives
InitTrackerSpec ==
  /\ providers = <<ProviderOf("openai"), ProviderOf("claude")>>
  /\ storage = TRUE
  /\ InitRequest
  /\ InitStore
  /\ now = 1
  /\ rpc = [r \in Requests |-> "new"]
  /\ rid = [r \in Requests |-> -1]
  /\ InitLogger
  /\ InitCache
  /\ InitRoundTrip
  /\ InitTracker
  /\ InitTranslate
  /\ InitEstimators

\* PerformanceTracker() and start_request() in a route, before handler h starts
StartRequest(h) ==
  /\ perf_pc = "new"
  /\ perf_handler' = h
  /\ request_start' = now
  /\ perf_pc' = "streaming"
  /\ UNCHANGED <<gateway_vars, concurrent_vars, logger_vars, cache_vars, roundtrip_vars,
                 translate_vars, estimators_vars, tasks, logs, store_failures,
                 first_token_time, token_timestamps, response_chunks,
                 performance_metrics>>

\* one iteration of the handler's async for loop: record_token(), then the
\* chunk is translated and appended to response_chunks unless it became None
StreamChunk(chunk) ==
  /\ perf_pc = "streaming"
  /\ Len(token_timestamps) < MaxChunks
  /\ first_token_time' = IF first_token_time = 0 THEN now ELSE first_token_time
  /\ token_timestamps' = Append(token_timestamps, now)
  /\ response_chunks' = IF Translate(perf_handler, chunk) = NoneChunk
                          THEN response_chunks ELSE response_chunks + 1
  /\ UNCHANGED <<gateway_vars, concurrent_vars, logger_vars, cache_vars, roundtrip_vars,
                 translate_vars, estimators_vars, tasks, logs, store_failures,
                 perf_pc, perf_handler, request_start, performance_metrics>>

\* record_streaming_log / record_claude_streaming_log after the stream:
\* performance_tracker.calculate_metrics(chunk_count)
RecordStreamingMetrics ==
  /\ perf_pc = "streaming"
  /\ performance_metrics' = calculate_metrics(request_start, first_token_time,
                                              token_timestamps, response_chunks, now)
  /\ perf_pc' = "logged"
  /\ UNCHANGED <<gateway_vars, concurrent_vars, logger_vars, cache_vars, roundtrip_vars,
                 translate_vars, estimators_vars, tasks, logs, store_failures,
                 perf_handler, request_start, first_token_time, token_timestamps,
                 response_chunks>>

NextTracker ==
  \/ Tick
  \/ \E h \in StreamingHandlers : StartRequest(h)
  \/ \E chunk \in UpstreamChunks(UpstreamKindOf(perf_handler), Len(token_timestamps) + 1) :
       StreamChunk(chunk)
  \/ RecordStreamingMetrics

SpecTracker == InitTrackerSpec /\ [][NextTracker]_vars

\* ------------------------------------------------ chunks translated one by one
StreamTranslators ==
  {"convert_claude_streaming_to_openai", "convert_openai_streaming_to_claude"}

\* the upstream chunks a translator is given: text deltas and control frames
StreamChunks(translator) ==
  IF translator = "convert_claude_streaming_to_openai"
    THEN {ClaudeTextDelta("A"), ClaudeTextDelta("B"), ClaudePing, ClaudeMessageStart}
    ELSE {OpenAIDelta("A"), OpenAIDelta("B"), OpenAIRoleOpener, OpenAIFinish}

InitTranslateSpec ==
  /\ providers = <<ProviderOf("openai"), ProviderOf("claude")>>
  /\ storage = TRUE
  /\ InitRequest
  /\ InitStore
  /\ InitClock
  /\ InitLogger
  /\ InitCache
  /\ InitRoundTrip
  /\ InitTracker
  /\ tr_dir \in StreamTranslators
  /\ tr_in = <<>>
  /\ tr_out = <<>>
  /\ InitEstimators

\* the translator is called for the next chunk of the upstream stream
TranslateChunk(chunk) ==
  /\ Len(tr_in) < MaxChunks
  /\ tr_in' = Append(tr_in, chunk)
  /\ tr_out' = Append(tr_out,
                 IF tr_dir = "convert_claude_streaming_to_openai"
                   THEN convert_claude_streaming_to_openai(chunk)
                   ELSE convert_openai_streaming_to_claude(chunk))
  /\ UNCHANGED <<gateway_vars, concurrent_vars, logger_vars, cache_vars, roundtrip_vars,
                 perf_vars, estimators_vars, tasks, logs, store_failures, tr_dir>>

NextTranslate == \E chunk \in StreamChunks(tr_dir) : TranslateChunk(chunk)

SpecTranslate == InitTranslateSpec /\ [][NextTranslate]_vars

\* ------------------------------------- requests in flight at the estimator
\* Requests are handled by coroutines of one event loop: a coroutine runs until
\* its next await. A handler awaits the upstream call; from there to its end
\* (create_task) there is no await, and estimate_cache_tokens has none.
InFlightMessageLists ==
  {<<Msg("system", "Be brief."), Msg("user", "hello")>>,
   <<Msg("system", "You are a helpful assistant"), Msg("user", "hello")>>,
   <<Msg("user", "hello")>>}

InitEstimatorsSpec ==
  /\ providers = <<ProviderOf("openai")>>
  /\ storage = TRUE
  /\ InitRequest
  /\ InitStore
  /\ InitClock
  /\ InitLogger
  /\ InitCache
  /\ InitRoundTrip
  /\ InitTracker
  /\ InitTranslate
  /\ InitEstimators

\* handle_regular_request starts for request r and awaits the upstream call
AwaitUpstream(r, messages) ==
  /\ rpc[r] = "new"
  /\ rpc' = [rpc EXCEPT ![r] = "running"]
  /\ est_req' = [est_req EXCEPT ![r] = messages]
  /\ UNCHANGED <<gateway_vars, logger_vars, cache_vars, roundtrip_vars, perf_vars,
                 translate_vars, tasks, logs, store_failures, now, rid, est_of, est_order>>

\* an estimate_cache_tokens call that loses its insertions in the shared set
EstimateInFlightInsertLost(r) ==
  /\ rpc[r] = "running"
  /\ LET e == estimate_cache_tokens(system_message_cache, est_req[r])
     IN  /\ est_result' = e.result
         /\ est_of' = [est_of EXCEPT ![r] = e.result]
  /\ est_messages' = est_req[r]
  /\ est_order' = Append(est_order, r)
  /\ rpc' = [rpc EXCEPT ![r] = "done"]
  /\ UNCHANGED <<gateway_vars, logger_vars, roundtrip_vars, perf_vars, translate_vars,
                 tasks, logs, store_failures, now, rid, est_req, system_message_cache>>

\* the upstream call of request r has returned: the handler goes on to
\* cache_estimator.estimate_cache_tokens(messages) on the shared estimator
EstimateInFlight(r) ==
  /\ rpc[r] = "running"
  /\ LET e == estimate_cache_tokens(system_message_cache, est_req[r])
     IN  /\ system_message_cache' = e.cache
         /\ est_result' = e.result
         /\ est_of' = [est_of EXCEPT ![r] = e.result]
  /\ est_messages' = est_req[r]
  /\ est_order' = Append(est_order, r)
  /\ rpc' = [rpc EXCEPT ![r] = "done"]
  /\ UNCHANGED <<gateway_vars, logger_vars, roundtrip_vars, perf_vars, translate_vars,
                 tasks, logs, store_failures, now, rid, est_req>>

NextEstimators ==
  \/ \E r \in Requests : \E messages \in InFlightMessageLists : AwaitUpstream(r, messages)
  \/ \E r \in Requests : EstimateInFlight(r)

SpecEstimators == InitEstimatorsSpec /\ [][NextEstimators]_vars

\* ------------------------------- buffered requests with template contents
\* the buffered requests whose messages carry the contents the estimator's
\* patterns are written for (a /v1/messages body has no system-role message)
TelemetryRequests(e) ==
  {MkDict({"model"}, model, msgs, "", 0, 0, 0, FALSE) :
     model \in {"gpt-4", "claude-3-opus-20240229"},
     msgs \in {l \in EstMessageLists :
                 e = "chat" \/ \A i \in 1..Len(l) : l[i].role # "system"}}

InitTelemetrySpec ==
  /\ providers = <<ProviderOf("openai"), ProviderOf("claude")>>
  /\ storage = TRUE
  /\ InitRequest
  /\ InitStore
  /\ InitClock
  /\ InitLogger
  /\ InitCache
  /\ InitRoundTrip
  /\ InitTracker
  /\ InitTranslate
  /\ InitEstimators

NextTelemetry ==
  \/ \E e \in {"chat", "messages"} : \E r \in TelemetryRequests(e) : Accept(e, r)
  \/ \E response \in UpstreamResponses(prov.kind) : UpstreamReturn(response)
  \/ \E err \in UpErrors : UpstreamFail(err)
  \/ RunLogTask
  \/ RunLogTaskFail

SpecTelemetry == InitTelemetrySpec /\ [][NextTelemetry]_vars

\* ------------------------------------------------------------------ claims
ClientDialect == IF endpoint = "chat" THEN "openai" ELSE "anthropic"

Translating ==
  route \in {"handle_openai_to_claude_conversion", "handle_claude_to_openai_conversion"}

CountEvents(kind) == Cardinality({i \in 1..Len(events) : events[i].kind = kind})

\* the text an upstream chunk carries, in the upstream's dialect
UpText(c) ==
  IF c.type = "content_block_delta" /\ c.deltaType = "text_delta" THEN c.text
  ELSE IF c.choices /\ c.hasContent THEN c.content
  ELSE ""

\* the text a forwarded chunk carries when read in the client's dialect
ClientText(out) ==
  IF endpoint = "chat" THEN OpenAIChunkText(out) ELSE ClaudeChunkText(out)

IsTextChunk(c) == UpText(c) # ""
IsTextEvent(ev) == ev.kind = "data" /\ ClientText(ev.chunk) # ""

RECURSIVE ConcatUpText(_)
ConcatUpText(chunks) ==
  IF chunks = <<>> THEN "" ELSE UpText(Head(chunks)) \o ConcatUpText(Tail(chunks))

RECURSIVE ConcatSystem(_)
ConcatSystem(msgs) ==
  IF msgs = <<>> THEN ""
  ELSE (IF Head(msgs).role = "system" THEN Head(msgs).content ELSE "")
         \o ConcatSystem(Tail(msgs))

\* C1: with logging enabled, a request for which an upstream call was issued
\* never has two logs (stored or scheduled), and once the response is complete
\* and no logging task is pending exactly one log is stored.
C1_ExactlyOneLogPerCall ==
  (storage /\ upstream_called) =>
    /\ Len(logs) + Len(tasks) <= 1
    /\ (pc = "done" /\ tasks = <<>>) => Len(logs) = 1

\* C2: the data events are in upstream arrival order without duplicates, each
\* is the handler's rendering of the upstream chunk it comes from, and every
\* chunk read so far that the handler forwards has its event already delivered
\* (so nothing is held back when the next chunk is read).
C2_StreamOrder ==
  /\ \A i, j \in 1..Len(events) :
       (i < j /\ events[i].kind = "data" /\ events[j].kind = "data")
         => events[i].src < events[j].src
  /\ \A i \in 1..Len(events) :
       events[i].kind = "data"
         => /\ events[i].src \in 1..Len(arrived)
            /\ events[i].chunk = Translate(handler, arrived[events[i].src])
  /\ \A k \in 1..Len(arrived) :
       Translate(handler, arrived[k]) # NoneChunk
         => \E i \in 1..Len(events) : events[i].kind = "data" /\ events[i].src = k

\* C2 witness: two chunks were forwarded and the handler is reading the third
C2_Witness ==
  /\ pc = "stream_read"
  /\ Len(arrived) >= 2
  /\ CountEvents("data") >= 2

\* C3: once the upstream stream has ended cleanly the event sequence holds
\* exactly one [DONE], as its last event, and no error event; once the upstream
\* has raised it holds exactly one error event, as its last event, and no
\* [DONE]; before either, it holds neither.  (The last event staying the last
\* one is what "nothing is emitted after [DONE]" says.)
C3_SentinelDiscipline ==
  /\ outcome = "ended" =>
       /\ CountEvents("done") = 1
       /\ CountEvents("error") = 0
       /\ events[Len(events)].kind = "done"
  /\ outcome = "raised" =>
       /\ CountEvents("error") = 1
       /\ CountEvents("done") = 0
       /\ events[Len(events)].kind = "error"
  /\ outcome \notin {"ended", "raised"} =>
       CountEvents("done") = 0 /\ CountEvents("error") = 0

\* C3 witness: a stream that forwarded chunks, ended cleanly and was consumed
C3_Witness ==
  /\ pc = "done"
  /\ outcome = "ended"
  /\ CountEvents("data") >= 2
  /\ events[Len(events)].kind = "done"

\* C4: on a translating path, once a stream whose upstream ended cleanly has
\* been consumed, the text events the client got, read in the client's
\* dialect, carry the texts of the upstream's text chunks one for one and in
\* order, the last event is [DONE], and the stored log's synthesized content
\* is the concatenation of the texts.
C4_TranslatedStreamKeepsText ==
  (Translating /\ pc = "done" /\ outcome = "ended") =>
    LET ups == SelectSeq(arrived, IsTextChunk)
        evs == SelectSeq(events, IsTextEvent)
    IN  /\ Len(evs) = Len(ups)
        /\ \A i \in 1..Len(evs) : ClientText(evs[i].chunk) = UpText(ups[i])
        /\ events[Len(events)].kind = "done"
        /\ \A i \in 1..Len(logs) : logs[i].raw_response.text = ConcatUpText(arrived)

\* C5: on the OpenAI-client / Anthropic-provider path the body sent upstream
\* has the non-system messages in order, a system string that concatenates the
\* client's system messages, and the client's model, max_tokens, temperature
\* and top_p.
C5_UpstreamBodyKeepsPrompt ==
  (upstream_called /\ endpoint = "chat" /\ prov.kind = "claude") =>
    /\ sent.messages = NonSystem(req.messages)
    /\ ConcatSystem(req.messages) # "" =>
         (Has(sent, "system") /\ sent.system = ConcatSystem(req.messages))
    /\ sent.model = req.model
    /\ Has(req, "max_tokens") =>
         (Has(sent, "max_tokens") /\ sent.max_tokens = req.max_tokens)
    /\ Has(req, "temperature") =>
         (Has(sent, "temperature") /\ sent.temperature = req.temperature)
    /\ Has(req, "top_p") => (Has(sent, "top_p") /\ sent.top_p = req.top_p)

\* C6: after a client disconnect during a streaming response, once no logging
\* task is pending, one log is stored, with success=true, N the number of
\* chunks observed and the partial aggregated text.
C6_LogOnDisconnect ==
  (storage /\ pc = "closed" /\ tasks = <<>>) =>
    /\ Len(logs) = 1
    /\ logs[1].success
    /\ logs[1].n = Len(arrived)
    /\ logs[1].raw_response.text = full_content

\* C7: the log of a streaming call whose upstream raised has success=false
\* and an error_message.
C7_StreamErrorLogged ==
  outcome = "raised" =>
    \A i \in 1..Len(logs) :
      ~logs[i].success /\ logs[i].error_message # NoneStr

\* C8: when a buffered upstream call fails with HTTP status s, the client gets
\* status s and the log has success=false, an error_message,
\* response_status_code = s and cost 0.
C8_UpstreamStatusMirrored ==
  (outcome = "failed" /\ up_err.status # 0) =>
    /\ http.status = up_err.status
    /\ \A i \in 1..Len(logs) :
         /\ ~logs[i].success
         /\ logs[i].error_message # NoneStr
         /\ logs[i].response_status_code = up_err.status
         /\ logs[i].estimated_cost_usd = 0

\* C9: an error event has the shape of the client's dialect.
C9_ErrorEventInClientDialect ==
  \A i \in 1..Len(events) :
    events[i].kind = "error" => events[i].shape = ClientDialect

\* C10 as stated: a body without "model" is rejected with 400 on both
\* endpoints, with no provider selected, no upstream call and no log.
C10_Original ==
  (pc # "idle" /\ ~Has(req, "model")) =>
    /\ http.status = 400
    /\ prov = NoProvider
    /\ ~upstream_called
    /\ tasks = <<>> /\ logs = <<>>

\* C10 amended: a body without "model" is rejected with 400 on
\* /v1/chat/completions, with no provider selected, no upstream call and no
\* log; on /v1/messages it is routed as model claude-3-5-sonnet-20241022 and
\* the upstream call is made (400 only when no provider is configured).
C10_MissingModel ==
  (pc # "idle" /\ ~Has(req, "model")) =>
    IF endpoint = "chat"
      THEN /\ http.status = 400
           /\ prov = NoProvider
           /\ ~upstream_called
           /\ tasks = <<>> /\ logs = <<>>
      ELSE IF providers = <<>>
        THEN http.status = 400 /\ ~upstream_called
        ELSE /\ upstream_called
             /\ prov = get_provider_for_model(providers, DefaultClaudeModel)

\* C10 witness: a chat/completions body without model, providers configured
C10_Witness ==
  /\ pc = "done"
  /\ endpoint = "chat"
  /\ ~Has(req, "model")
  /\ providers # <<>>
  /\ http.status = 400

\* the model name an endpoint hands to get_provider_for_model
RoutedModel == IF endpoint = "chat" THEN req.model ELSE GetModel(req, DefaultClaudeModel)

\* whether the request reached get_provider_for_model
Routed == pc # "idle" /\ (endpoint = "messages" \/ Has(req, "model"))

\* the positions of the configured providers of a dialect
KindIdx(kind) == {i \in 1..Len(providers) : providers[i].kind = kind}

\* the dialect a model name asks for ("" for a name of another prefix)
WantedKind(model) ==
  IF model = "gpt-4" THEN "openai"
  ELSE IF model \in {"claude-3-opus-20240229", DefaultClaudeModel} THEN "claude"
  ELSE ""

\* C11: a routed request with no provider configured gets HTTP 400 with no
\* upstream call and no log; with providers configured it is never refused and
\* its provider is the earliest configured one of the dialect its model name
\* asks for (gpt: OpenAI, claude: Anthropic) when there is one, and the first
\* configured provider otherwise.
C11_ProviderForModel ==
  Routed =>
    IF providers = <<>>
      THEN /\ http.status = 400
           /\ prov = NoProvider
           /\ ~upstream_called
           /\ tasks = <<>> /\ logs = <<>>
      ELSE /\ http.status # 400
           /\ upstream_called
           /\ LET idx == KindIdx(WantedKind(RoutedModel))
              IN  IF idx # {}
                    THEN \E i \in idx : prov = providers[i] /\ \A j \in idx : i <= j
                    ELSE prov = providers[1]

\* C11 witness: the wanted dialect is configured second and third, and the
\* request went to the second provider
C11_Witness ==
  /\ Routed
  /\ Len(providers) = 3
  /\ KindIdx(WantedKind(RoutedModel)) = {2, 3}
  /\ prov = providers[2]

\* the body the client is given for a buffered upstream response
ClientBody(response) ==
  IF route = "handle_claude_to_openai_conversion"
    THEN convert_openai_to_claude_response(response)
  ELSE IF route = "handle_openai_to_claude_conversion" THEN normalize_response(response)
  ELSE response

\* C13: a step in which store_log raises happens inside a logging task, after
\* the handler has finished; it leaves the HTTP response, the events already
\* streamed and the state of the request as they are, and the response of a
\* buffered call whose upstream returned is the upstream's response (status 200).
C13_StoreFailureContained ==
  [][store_failures' # store_failures =>
       /\ pc = "done" /\ pc' = "done"
       /\ http' = http /\ events' = events /\ outcome' = outcome
       /\ outcome = "returned" => http' = Http(200, ClientBody(up_resp))
       /\ outcome \in {"ended", "raised"} => http'.status = 200]_vars

\* C13 witness: store_log raised for the log of a buffered call that returned
C13_Witness ==
  /\ store_failures = 1
  /\ outcome = "returned"
  /\ http.status = 200
  /\ logs = <<>> /\ tasks = <<>>

\* C12: any two requests that were given a request_id were given different
\* ones, and no store_log call is refused by the primary key.
C12_RequestIdsUnique ==
  /\ \A r1, r2 \in Requests :
       (r1 # r2 /\ rid[r1] # -1 /\ rid[r2] # -1) => rid[r1] # rid[r2]
  /\ store_failures = 0

\* C14: the worker never drops a log it took from the queue, and when stop()
\* of a started logger has returned every log that log_request enqueued is a
\* row of the table.
C14_AtLeastOnce ==
  /\ dropped = {}
  /\ (started /\ stop_pc = "returned") =>
       \A r \in accepted : \E i \in 1..Len(logs) : logs[i].request_id = r

\* the dialect of the provider that served the request
ProviderDialect == IF prov.kind = "openai" THEN "openai" ELSE "anthropic"

C16_RawRequestIsClientBody ==
  \A i \in 1..Len(logs) : logs[i].raw_request = req

\* C17: a stored row whose prompt and completion counts are both set has its
\* total set, equal to their sum.
C17_TotalIsSum ==
  \A i \in 1..Len(logs) :
    (logs[i].actual_prompt_tokens # TokensNone
       /\ logs[i].actual_completion_tokens # TokensNone)
      => /\ logs[i].actual_total_tokens # TokensNone
         /\ logs[i].actual_total_tokens =
              logs[i].actual_prompt_tokens + logs[i].actual_completion_tokens

\* C18: the log of a buffered call that returned has cost
\* p * input_price + c * output_price (per 1K tokens) when the upstream
\* reported usage and the model is in the provider's price table, and 0
\* when the model is unknown or usage is missing.
C18_CostFromUsage ==
  \A i \in 1..Len(logs) :
    outcome = "returned" =>
      LET pr == Pricing(prov.kind, logs[i].model)
      IN  logs[i].estimated_cost_usd =
            IF up_resp.hasUsage /\ pr.known
              THEN up_resp.p * pr.input + up_resp.c * pr.output
              ELSE 0

\* C19: no two rows of api_calls share a request_id; a store_log call for a
\* request_id already present raises and leaves the table as it was; any other
\* store_log call adds exactly one row, with the log's request_id, at the end;
\* and no step changes or removes a row stored before.
C19_StoreLogPrimaryKey ==
  /\ [](\A i, j \in 1..Len(logs) : i # j => logs[i].request_id # logs[j].request_id)
  /\ [][/\ Len(logs') >= Len(logs)
         /\ \A i \in 1..Len(logs) : logs'[i] = logs[i]
         /\ (tasks # <<>> /\ tasks' = Tail(tasks)) =>
              LET log == TaskLog(Head(tasks))
              IN  IF \E k \in 1..Len(logs) : logs[k].request_id = log.request_id
                    THEN logs' = logs /\ store_failures' = store_failures + 1
                    ELSE /\ Len(logs') = Len(logs) + 1
                         /\ logs'[Len(logs')].request_id = log.request_id
                         /\ store_failures' = store_failures]_vars

\* C19 witness: two rows are stored and a store_log call for a request_id
\* already present was refused
C19_Witness ==
  /\ Len(logs) >= 2
  /\ store_failures >= 1
  /\ tasks = <<>>
  /\ \A r \in Requests : rpc[r] = "done"

\* C20: a CacheAnalysis returned by estimate_cache_tokens has cached >= 0,
\* fresh >= 0 and cached + fresh <= the token total of the list, a hit rate in
\* [0, 1], and hit rate = cached / (cached + fresh) when cached + fresh > 0.
C20_CacheSplitWithinTotal ==
  est_result.status = "returned" =>
    LET cached == est_result.estimated_cached_tokens
        fresh == est_result.estimated_fresh_tokens
    IN  /\ cached >= 0
        /\ fresh >= 0
        /\ cached + fresh <= count_messages_tokens(est_messages)
        /\ est_result.rate_den > 0
        /\ 0 <= est_result.rate_num /\ est_result.rate_num <= est_result.rate_den
        /\ cached + fresh > 0 =>
             est_result.rate_num * (cached + fresh) = cached * est_result.rate_den

\* C20 witness: a call returned for a list whose three buckets together
\* exceed its token total
C20_Witness ==
  /\ est_result.status = "returned"
  /\ est_result.system_message_cached + est_result.template_cached
       + est_result.conversation_history_cached > count_messages_tokens(est_messages)
  /\ est_result.estimated_cached_tokens + est_result.estimated_fresh_tokens > 0

\* whether the content of the system message at position i was seen before it:
\* in an earlier call (its hash is in cache) or earlier in the same list
SeenBefore(cache, messages, i) ==
  \/ md5(messages[i].content) \in cache
  \/ \E j \in 1..(i - 1) :
       messages[j].role = "system" /\ messages[j].content = messages[i].content

\* the tokens of the system messages among the first n that were seen before
RECURSIVE SeenSystemTokens(_, _, _)
SeenSystemTokens(cache, messages, n) ==
  IF n = 0 THEN 0
  ELSE SeenSystemTokens(cache, messages, n - 1)
       + (IF messages[n].role = "system" /\ SeenBefore(cache, messages, n)
            THEN count_tokens(messages[n].content) ELSE 0)

SystemHashes(messages) ==
  {md5(messages[i].content) : i \in {j \in 1..Len(messages) : messages[j].role = "system"}}

\* C21: in every estimate_cache_tokens call a system message adds its tokens
\* to system_message_cached iff its content was seen before (in an earlier
\* call or earlier in the list) and adds 0 the first time; the set of seen
\* hashes only grows, by the hashes of the call's system messages.
C21_SystemSeenBefore ==
  [][/\ system_message_cache \subseteq system_message_cache'
     /\ system_message_cache' = system_message_cache \cup SystemHashes(est_messages')
     /\ est_result'.status = "returned" =>
          est_result'.system_message_cached
            = SeenSystemTokens(system_message_cache, est_messages', Len(est_messages'))]_vars

\* a call returned a positive system bucket for a list with one system
\* message: that content was first seen by an earlier call
C21_Witness ==
  /\ est_result.status = "returned"
  /\ Cardinality({i \in 1..Len(est_messages) : est_messages[i].role = "system"}) = 1
  /\ est_result.system_message_cached = count_messages_tokens(
       SelectSeq(est_messages, LAMBDA m : m.role = "system"))
  /\ est_result.system_message_cached > 0

\* the probability p of the history bucket, in tenths: 0.3, plus 0.5 for a
\* system message, plus 0.2 below 100 characters or 0.1 below 500, plus 0.2
\* for a repeated three-word phrase among at least ten words, at most 1.0
HistoryP(m) ==
  Min(10, 3 + (IF m.role = "system" THEN 5 ELSE 0)
            + (IF content_length(m.content) < 100 THEN 2
               ELSE IF content_length(m.content) < 500 THEN 1 ELSE 0)
            + (IF WordCount(m.content) >= 10 /\ m.content \in RepeatedPhraseContents
                 THEN 2 ELSE 0))

\* the sum of int(tokens(content) * p(msg)) over the first n messages
RECURSIVE HistoryBucket(_, _)
HistoryBucket(messages, n) ==
  IF n = 0 THEN 0
  ELSE HistoryBucket(messages, n - 1)
       + (count_tokens(messages[n].content) * HistoryP(messages[n])) \div 10

\* C23: for every list of at least two messages (lists of exactly two
\* included) the conversation-history bucket is the sum of
\* int(tokens(content) * p(msg)) over every message except the last.
C23_HistoryBucketAllButLast ==
  (est_result.status = "returned" /\ Len(est_messages) >= 2) =>
    est_result.conversation_history_cached
      = HistoryBucket(est_messages, Len(est_messages) - 1)

\* count_tokens of the text that the first matching pattern of the table
\* matches in the content (0: no pattern matches)
MatchedTextTokens(text) ==
  CASE text = "You are a helpful assistant" -> 5
    [] text = "Please summarize this text for me now" -> 2
    [] text = "How do I sort a list" -> 3
    [] OTHER -> 0

\* the sum of min(tokens(m), tokens(content) div 4) over the first n messages
RECURSIVE TemplateBucket(_, _)
TemplateBucket(messages, n) ==
  IF n = 0 THEN 0
  ELSE TemplateBucket(messages, n - 1)
       + Min(MatchedTextTokens(messages[n].content),
             count_tokens(messages[n].content) \div 4)

\* C24: every estimate_cache_tokens call on messages with non-empty string
\* content returns a CacheAnalysis, whichever pattern of the table matches,
\* and its template bucket adds min(tokens(m), tokens(content) div 4) once
\* per message, m being the text matched by the first matching pattern.
C24_TemplateBucketDefined ==
  est_result.status # "none" =>
    /\ est_result.status = "returned"
    /\ est_result.template_cached = TemplateBucket(est_messages, Len(est_messages))

\* the system messages of a list in their original order, then the others
SystemFirst(msgs) == SelectSeq(msgs, LAMBDA m : m.role = "system") \o NonSystem(msgs)

\* C22: convert_claude_to_openai(_convert_to_claude_format(R)) has R's model,
\* R's messages with the system messages moved to the front in their order
\* (none lost or altered), and a max_tokens not below R's.
C22_RoundTripKeepsRequest ==
  rt_pc = "back" =>
    /\ rt_openai.model = rt_request.model
    /\ rt_openai.messages = SystemFirst(rt_request.messages)
    /\ Has(rt_request, "max_tokens") => rt_openai.max_tokens >= rt_request.max_tokens

\* the last entry of PerformanceTracker.token_timestamps
LastTimestamp == token_timestamps[Len(token_timestamps)]

\* C25: calculate_metrics after start_request and k >= 1 record_token calls
\* returns ttft_ms = first_token_time - request_start and total_latency_ms =
\* last token timestamp - request_start, in milliseconds; with no token
\* recorded ttft_ms is null and total_latency_ms = now - request_start.
C25_LatencyFromRequestStart ==
  [][(perf_pc = "streaming" /\ perf_pc' = "logged") =>
       /\ performance_metrics'.status = "returned"
       /\ IF token_timestamps # <<>>
            THEN /\ performance_metrics'.ttft_ms = Ms(first_token_time - request_start)
                 /\ performance_metrics'.total_latency_ms = Ms(LastTimestamp - request_start)
            ELSE /\ performance_metrics'.ttft_ms = MsNone
                 /\ performance_metrics'.total_latency_ms = Ms(now - request_start)]_vars

\* C26: a streaming call with N >= 2 observed chunks logs ttft_ms <=
\* total_latency_ms and a non-null tpot_ms > 0 equal to (last_timestamp -
\* first_token_time) / N; with N <= 1, tpot_ms and tokens_per_second are null.
\* N is the number of upstream chunks observed (the record_token calls).
C26_TpotOverObservedChunks ==
  (perf_pc = "logged" /\ performance_metrics.status = "returned") =>
    LET N == Len(token_timestamps)
    IN  IF N >= 2
          THEN /\ performance_metrics.ttft_ms <= performance_metrics.total_latency_ms
               /\ performance_metrics.tpot_ms # MsNone
               /\ performance_metrics.tpot_ms > 0
               /\ performance_metrics.tpot_ms
                    = Round2(LastTimestamp - first_token_time, TicksPerMs * N)
          ELSE /\ performance_metrics.tpot_ms = MsNone
               /\ performance_metrics.tokens_per_second = MsNone

\* the text an upstream chunk carries ("": none)
CarriedText(c) ==
  IF tr_dir = "convert_claude_streaming_to_openai" THEN ClaudeChunkText(c)
  ELSE OpenAIChunkText(c)

\* whether a translated chunk is a text delta of the client dialect, and its text
IsTextDelta(o) ==
  IF tr_dir = "convert_claude_streaming_to_openai" THEN o.choices /\ o.hasContent
  ELSE o.type = "content_block_delta" /\ o.deltaType = "text_delta"

DeltaText(o) == IF tr_dir = "convert_claude_streaming_to_openai" THEN o.content ELSE o.text

\* C27: each translated chunk depends on its upstream chunk only; a chunk
\* carrying text t becomes a text delta carrying exactly t, and a chunk without
\* text (ping, role-only opener, finish marker) becomes a ping or nothing,
\* never a text delta with empty text.
C27_ControlFramesCarryNoText ==
  /\ Len(tr_out) = Len(tr_in)
  /\ \A i \in 1..Len(tr_in) :
       /\ \A k \in 1..Len(tr_in) : tr_in[k] = tr_in[i] => tr_out[k] = tr_out[i]
       /\ IF CarriedText(tr_in[i]) # ""
            THEN IsTextDelta(tr_out[i]) /\ DeltaText(tr_out[i]) = CarriedText(tr_in[i])
            ELSE tr_out[i] \in {NoneChunk, ClaudePing}

\* system_message_cache after the first n calls of est_order made one after
\* the other on a fresh estimator
RECURSIVE CacheAfter(_)
CacheAfter(n) ==
  IF n = 0 THEN {}
  ELSE estimate_cache_tokens(CacheAfter(n - 1), est_req[est_order[n]]).cache

\* the requests whose estimate_cache_tokens call has returned with a list
\* holding the system content s
CallsWith(s) ==
  {r \in Requests : rpc[r] = "done" /\ md5(s) \in SystemHashes(est_req[r])}

\* C28: of the in-flight calls that carry the same unseen system message
\* exactly one counts it as new (0 tokens) and every other one as cached, no
\* insertion is lost, and all results are those of the calls made one after
\* the other in some order.
C28_CheckAndInsertAtomic ==
  /\ \A s \in EstContents :
       CallsWith(s) # {} =>
         /\ Cardinality({r \in CallsWith(s) : est_of[r].system_message_cached = 0}) = 1
         /\ \A r \in CallsWith(s) :
              est_of[r].system_message_cached \in {0, count_tokens(s)}
         /\ md5(s) \in system_message_cache
  /\ system_message_cache = CacheAfter(Len(est_order))
  /\ \A n \in 1..Len(est_order) :
       est_of[est_order[n]]
         = estimate_cache_tokens(CacheAfter(n - 1), est_req[est_order[n]]).result

\* three requests were in flight together with the same system message; one
\* call found it new and two found it cached
C28_Witness ==
  /\ \A r \in Requests : rpc[r] = "done"
  /\ \E s \in EstContents :
       /\ CallsWith(s) = Requests
       /\ Cardinality({r \in Requests : est_of[r].system_message_cached = count_tokens(s)})
            = MaxRequests - 1

\* the request_ids of the rows of api_calls
StoredIds == {logs[i].request_id : i \in 1..Len(logs)}

\* C29: stop() terminates when the worker was started: once the shutdown flag
\* is set log_request enqueues nothing, the worker hands every log left in
\* the queue to store_log and leaves its loop when the queue is empty, and
\* stop() returns with the worker task cleared.
C29_StopTerminates ==
  /\ (stop_pc = "awaiting") ~> (stop_pc = "returned")
  /\ [][shutdown => Len(log_queue') <= Len(log_queue)]_vars
  /\ [][(stop_pc = "awaiting" /\ stop_pc' = "returned") =>
          /\ log_queue' = <<>>
          /\ logger_task' = "none"
          /\ accepted' \subseteq (StoredIds \cup dropped)]_vars

\* stop() has returned after a started worker took two logs to store_log
C29_Witness ==
  /\ started
  /\ stop_pc = "returned"
  /\ logger_task = "none"
  /\ log_queue = <<>>
  /\ Cardinality(accepted) >= 2

\* the CallLogs of the request: stored, or held by a logging task not yet run
RequestLogs ==
  {logs[i] : i \in 1..Len(logs)} \cup {TaskLog(tasks[i]) : i \in 1..Len(tasks)}

\* C30: in the non-streaming handlers, once the upstream call has returned a
\* response the client receives that response and the CallLog has
\* success=true, even if a later telemetry step (cache estimation, usage
\* parsing, cost estimation, CallLog construction) raises.
C30_TelemetryFailureContained ==
  (pc = "done" /\ outcome = "returned") =>
    /\ http = Http(200, ClientBody(up_resp))
    /\ \A log \in RequestLogs : log.success

====
